---- MODULE Spec2Model ----
(***************************************************************************)
(* Request authorization, rate limiting and job orchestration of the       *)
(* TTS/STT backend (backend/src: middlewares, controllers, services).      *)
(*                                                                         *)
(* One request is one sequential task that yields at its awaits.  Shared  *)
(* state is the storage layer (users, apiKeys, jobs, usage) and the rate   *)
(* limiter's bucket table.  Storage reads succeed; a storage write may     *)
(* fault (at most MaxFaults times in a run).                               *)
(*                                                                         *)
(* Spec        the request pipeline: requests are served one after the     *)
(*             other, each interleaved at every await with credential      *)
(*             management and storage administration; the clock stands     *)
(*             still.                                                      *)
(* SpecLive    the request pipeline when every storage write succeeds,     *)
(*             each request taking its next step as long as it has one.    *)
(* SpecRate    the rate limiter alone, under a running clock.              *)
(* SpecBilling the units the services bill for the provider's responses.   *)
(* SpecOverride   the rate limiter mounted with and without an explicit    *)
(*             limit.                                                      *)
(* SpecConcurrent requests in flight together, up to the controller.       *)
(* SpecAuth    login and the management routes (models, analytics, API     *)
(*             keys, voice cloning) behind requireJwt and requireRole.     *)
(* SpecKeys    the API key service: keys issued, presented and revoked     *)
(*             under a running clock.                                      *)
(* SpecFallback   concurrent callers of ensureFallbackOrgId and the       *)
(*             storage calls of its lookup.                                *)
(***************************************************************************)
EXTENDS Integers, Sequences, FiniteSets, TLC

VARIABLES
    users,      \* prisma.user:   user id -> [orgId, role, email, passwordHash] (partial)
    apiKeys,    \* prisma.apiKey: key id  -> [orgId, keyHash, scopes, rateLimitPerMinute, revokedAt, lastUsedAt]
    jobs,       \* prisma.ttsJob / prisma.sttJob rows, job id = position
    usage,      \* prisma.usageRecord rows, in append order
    buckets,    \* rate limiter: bucket key -> [count, expiresAt] (partial, a Map)
    now,        \* Date.now()
    req,        \* the requests: headers, route, req.auth, position in the handler chain
    faults,     \* storage write faults injected so far
    hist,       \* per job, what happened to it; in SpecAuth the logins made (history)
    rlLog,      \* limiter decisions taken by the stand-alone limiter driver (history)
    fallback    \* requestContext: cachedFallbackOrgId, fallbackOrgPromise, the promises,
                \* prisma.organization, the callers of ensureFallbackOrgId

vars == <<users, apiKeys, jobs, usage, buckets, now, req, faults, hist, rlLog, fallback>>

----------------------------------------------------------------------------
(* Bounds of the model *)

MaxItems == 2
MaxFaults == 2
MaxChanges == 1
(* The clock, in milliseconds: how far it runs and the step it advances by *)
MaxTime == 3000
TickMs == 500
MaxRL == 4
MaxLogins == 1
MaxCallers == 3

(* config.rateLimit, both read from the environment; scaled down *)
WindowMs == 1500
DefaultLimit == 2

(* The divisor in Math.ceil((bucket.expiresAt - now) / 1000) *)
MsPerSecond == 1000

(* config.jwt.expiresIn, on the model's time scale *)
JwtExpiresIn == 1000

NULL == 0 - 1
None == "none"

Reqs == {1, 2}
Orgs == {"o1", "o2"}

(* Secrets a caller may present in x-api-key; "sx" was never issued *)
Secrets == {"s1", "s2", "sx"}
(* Input texts of synthesis jobs, as character sequences *)
Texts == {<<"h", "i">>, <<"h", "e", "y">>}
(* The request pipeline never reads the text it passes on to the job and the
   provider: its requests all submit the same one *)
SubmittedTexts == {<<"h", "i">>}

Routes == {"synthesize", "synthesize-batch", "transcribe", "batch-transcribe"}

IsBatch(route) == route \in {"synthesize-batch", "batch-transcribe"}
KindOf(route) == IF route \in {"synthesize", "synthesize-batch"} THEN "tts" ELSE "stt"

----------------------------------------------------------------------------
(* Credentials *)

hashKey(key) == <<"sha256", key>>

(* bcrypt.hash(password), bcrypt.compare(password, hash) *)
bcryptHash(password) == <<"bcrypt", password>>
bcryptCompare(password, passwordHash) == passwordHash = bcryptHash(password)

InitUsers ==
    [u \in {"u1"} |->
        [orgId |-> "o1", role |-> "owner", email |-> "owner@acme.dev",
         passwordHash |-> bcryptHash("pw1")]]

(* JSON web tokens: the claims, the expiry instant and a signature that binds
   both to the signing secret *)
JwtSecret == "dev-secret-change-me"

jwtSign(payload, secret, exp) ==
    [wellFormed |-> TRUE, payload |-> payload, exp |-> exp,
     sig |-> <<secret, payload, exp>>]

buildTokenWithoutTenant(id, user, t) ==
    jwtSign([sub |-> id, orgId |-> None, role |-> user.role, email |-> user.email],
            JwtSecret, t + JwtExpiresIn)

(* buildToken(user) at instant t *)
buildToken(id, user, t) ==
    jwtSign([sub |-> id, orgId |-> user.orgId, role |-> user.role, email |-> user.email],
            JwtSecret, t + JwtExpiresIn)

(* jwt.verify(token, secret) throws for a token it cannot parse, for a
   signature made with another secret or over other claims, and from the
   expiry instant on; the library's errors carry a message and no status *)
jwtVerifyError(token, secret, t) ==
    IF ~token.wellFormed THEN "jwt malformed"
    ELSE IF token.sig # <<secret, token.payload, token.exp>> THEN "invalid signature"
    ELSE IF t >= token.exp THEN "jwt expired"
    ELSE None

(* jwt.verify of a token it accepts: its payload *)
JwtPayload(token) == token.payload

(* The Authorization header: absent, or a scheme and a token *)
NoToken ==
    [wellFormed |-> FALSE,
     payload |-> [sub |-> None, orgId |-> None, role |-> None, email |-> None],
     exp |-> 0, sig |-> <<>>]
NoAuthorization == [scheme |-> "none", token |-> NoToken]
Bearer(token) == [scheme |-> "Bearer", token |-> token]

(* Tokens issued to the seeded owner before the run: one still valid, one
   whose expiry instant has come *)
(* A token that does not parse, and one whose claims name the seeded owner
   but whose signature was made with another secret *)
GarbageToken == [NoToken EXCEPT !.sig = <<"abc">>]
ForgedToken ==
    jwtSign([sub |-> "u1", orgId |-> "o1", role |-> "owner", email |-> "owner@acme.dev"],
            "another-secret", JwtExpiresIn)

ValidToken == buildToken("u1", InitUsers["u1"], 0)
ExpiredToken == buildToken("u1", InitUsers["u1"], 0 - JwtExpiresIn)
Tokens == {ValidToken, ExpiredToken}

(* The users of the management scenarios: the seeded owner, a viewer of the
   same tenant, and a developer of another tenant who has the owner's e-mail *)
AuthUsers ==
    [u \in {"u1", "u2", "u3"} |->
        IF u = "u1" THEN InitUsers["u1"]
        ELSE IF u = "u2"
        THEN [orgId |-> "o1", role |-> "viewer", email |-> "viewer@acme.dev",
              passwordHash |-> bcryptHash("pw2")]
        ELSE [orgId |-> "o2", role |-> "developer", email |-> "owner@acme.dev",
              passwordHash |-> bcryptHash("pw3")]]

(* organization.slug *)
OrgSlug == [o \in Orgs |-> IF o = "o1" THEN "acme-corp" ELSE "globex"]

InitApiKeys ==
    [k \in {"k1", "k2"} |->
        IF k = "k1"
        THEN [orgId |-> "o1", keyHash |-> hashKey("s1"), scopes |-> {"tts"},
              rateLimitPerMinute |-> 0, revokedAt |-> NULL, lastUsedAt |-> NULL]
        ELSE [orgId |-> "o2", keyHash |-> hashKey("s2"), scopes |-> {"stt"},
              rateLimitPerMinute |-> 1, revokedAt |-> NULL, lastUsedAt |-> NULL]]

(* prisma.apiKey.findUnique({ where: { keyHash } }) : the key id, or None *)
findApiKey(hashed) ==
    IF \E k \in DOMAIN apiKeys : apiKeys[k].keyHash = hashed
    THEN CHOOSE k \in DOMAIN apiKeys : apiKeys[k].keyHash = hashed
    ELSE None

apiKeyRejectedIgnoringRevocation(k) == k = None

(* !apiKeyRecord || apiKeyRecord.revokedAt *)
apiKeyRejected(k) == k = None \/ apiKeys[k].revokedAt # NULL

jwtRejectedWithoutTenantCheck(payload) == payload.sub \notin DOMAIN users

(* !user || user.orgId !== payload.orgId *)
jwtRejected(payload) ==
    payload.sub \notin DOMAIN users \/ users[payload.sub].orgId # payload.orgId

hasScopeAnyScope(k, scope) == apiKeys[k].scopes # {}

(* req.auth.apiKey.scopes.includes(scope) *)
hasScope(k, scope) == scope \in apiKeys[k].scopes

RequiredScope(route) == KindOf(route)

(* History: what was true of the presented credential when it was resolved *)
SubjectStale(payload) ==
    ~(\E u \in DOMAIN users : u = payload.sub /\ users[u].orgId = payload.orgId)
KeyRevoked(header) ==
    \E k \in DOMAIN apiKeys : apiKeys[k].keyHash = hashKey(header) /\ apiKeys[k].revokedAt # NULL

----------------------------------------------------------------------------
(* Requests *)

IdleReq ==
    [pc |-> "idle", route |-> "synthesize", bearer |-> NoAuthorization, apiKeyHeader |-> None,
     text |-> <<>>, n |-> 1, user |-> None, apiKey |-> None, orgId |-> None,
     idx |-> 0, job |-> 0, err |-> None, status |-> 0, results |-> 0,
     rl |-> None, calls |-> 0, resolved |-> FALSE, staleJwt |-> FALSE, revokedKey |-> FALSE,
     lastUsedFault |-> FALSE, bucket |-> None, retryAfter |-> 0, message |-> None]

(* The callers of ensureFallbackOrgId *)
Callers == 1..MaxCallers

(* let cachedFallbackOrgId = null; let fallbackOrgPromise = null; no promise
   made (promise 0 stands for null), no organization stored, DEV_ORG_ID unset;
   created counts the organizations the lookup has stored (history) *)
IdleFallback ==
    [cachedFallbackOrgId |-> None, fallbackOrgPromise |-> 0, promises |-> <<>>,
     organizations |-> <<>>, devOrgId |-> None, storageCalls |-> 0, created |-> 0,
     callers |-> [c \in Callers |-> [pc |-> "idle", promise |-> 0, result |-> None]]]

Init ==
    /\ users = InitUsers
    /\ apiKeys = InitApiKeys
    /\ jobs = <<>>
    /\ usage = <<>>
    /\ buckets = [k \in {} |-> 0]
    /\ now = 0
    /\ req = [r \in Reqs |-> IdleReq]
    /\ faults = 0
    /\ hist = <<>>
    /\ rlLog = <<>>
    /\ fallback = IdleFallback

(* A storage write either succeeds or faults; faults are bounded *)
WriteOutcome(ok) == ok \/ faults < MaxFaults
CountFault(ok) == faults' = IF ok THEN faults ELSE faults + 1

(* The handler chain ends: res.status(code).json(...) *)
Respond(r, code) == [req EXCEPT ![r].pc = "done", ![r].status = code]

(* A request arrives on a route with its headers and its body: the text to
   synthesize (a batch repeats it in every item) or the audio to transcribe *)
Submit(r) ==
    /\ req[r].pc = "idle"
    /\ \E route \in Routes, b \in {NoAuthorization} \cup {Bearer(t) : t \in Tokens}, k \in {None} \cup Secrets :
       \E text \in IF KindOf(route) = "tts" THEN SubmittedTexts ELSE {<<>>} :
       LET n == IF IsBatch(route) THEN MaxItems ELSE 1 IN
          req' = [req EXCEPT ![r] = [IdleReq EXCEPT !.pc = "jwt", !.route = route,
                                       !.bearer = b, !.apiKeyHeader = k,
                                       !.text = text, !.n = n]]
    /\ UNCHANGED <<users, apiKeys, jobs, usage, buckets, now, faults, hist, rlLog, fallback>>

(* Requests served one after another: the next one arrives when the one
   before it has been answered or waits for the provider *)
Arrive(r) ==
    /\ \A q \in Reqs : q < r => req[q].pc \in {"done", "awaiting"}
    /\ Submit(r)

----------------------------------------------------------------------------
(* Middlewares *)

AfterApiKey(route) == IF KindOf(route) = "stt" THEN "authOrKey" ELSE "scope"

(* ensureAuthContainer(req); req.auth.user = user; req.auth.orgId = user.orgId *)
attachJwtAuth(rq, sub) == [rq EXCEPT !.user = sub, !.orgId = users[sub].orgId]

(* The same with the container replaced instead of kept *)
attachApiKeyAuthFreshContainer(rq, k) ==
    [rq EXCEPT !.user = None, !.apiKey = k, !.orgId = apiKeys[k].orgId]

attachApiKeyAuthKeepingTenant(rq, k) ==
    [rq EXCEPT !.apiKey = k, !.orgId = IF @ # None THEN @ ELSE apiKeys[k].orgId]

(* ensureAuthContainer(req); auth.apiKey = apiKeyRecord; auth.orgId = apiKeyRecord.orgId *)
attachApiKeyAuth(rq, k) == [rq EXCEPT !.apiKey = k, !.orgId = apiKeys[k].orgId]

(* errorHandler: statusCode = err.status || 500, message = err.message *)
errorHandler(err) ==
    [status |-> IF err.status # 0 THEN err.status ELSE 500, message |-> err.message]

(* attachJwtToRequest(req): nothing to do without the header; an error thrown
   for a header of another form, by jwt.verify, or for a subject that is gone
   or belongs to another tenant; else the identity to attach *)
attachJwtToRequest(header) ==
    IF header.scheme = "none"
    THEN [kind |-> "absent", err |-> [status |-> 0, message |-> None], verified |-> FALSE]
    ELSE IF header.scheme # "Bearer" \/ header.token = NoToken
    THEN [kind |-> "throw", verified |-> FALSE,
          err |-> [status |-> 401, message |-> "Invalid Authorization header format"]]
    ELSE IF jwtVerifyError(header.token, JwtSecret, now) # None
    THEN [kind |-> "throw", verified |-> FALSE,
          err |-> [status |-> 0, message |-> jwtVerifyError(header.token, JwtSecret, now)]]
    ELSE IF jwtRejected(JwtPayload(header.token))
    THEN [kind |-> "throw", verified |-> TRUE,
          err |-> [status |-> 401, message |-> "Invalid authentication token"]]
    ELSE [kind |-> "attach", err |-> [status |-> 0, message |-> None], verified |-> TRUE]

(* optionalJwt -> attachJwtToRequest; a thrown error reaches errorHandler *)
optionalJwt(r) ==
    /\ req[r].pc = "jwt"
    /\ LET a == attachJwtToRequest(req[r].bearer)
           payload == JwtPayload(req[r].bearer.token)
           stale == a.verified /\ SubjectStale(payload)
       IN IF a.kind = "absent"
          THEN req' = [req EXCEPT ![r].pc = "apikey"]
          ELSE IF a.kind = "throw"
          THEN req' = [req EXCEPT ![r].pc = "done",
                                  ![r].status = errorHandler(a.err).status,
                                  ![r].staleJwt = stale]
          ELSE req' = [req EXCEPT ![r] = [attachJwtAuth(@, payload.sub) EXCEPT
                                              !.pc = "apikey", !.staleJwt = stale]]
    /\ UNCHANGED <<users, apiKeys, jobs, usage, buckets, now, faults, hist, rlLog, fallback>>

(* optionalApiKey -> attachApiKey: look the digest up, attach, then write
   lastUsedAt; a fault of that write is thrown to errorHandler (no status: 500) *)
optionalApiKey(r, ok) ==
    /\ req[r].pc = "apikey"
    /\ IF req[r].apiKeyHeader = None
       THEN /\ ok
            /\ req' = [req EXCEPT ![r].pc = AfterApiKey(req[r].route), ![r].resolved = TRUE]
            /\ UNCHANGED <<apiKeys, faults>>
       ELSE LET k == findApiKey(hashKey(req[r].apiKeyHeader)) IN
            IF apiKeyRejected(k)
            THEN /\ ok
                 /\ req' = [req EXCEPT ![r].pc = "done", ![r].status = 401,
                                         ![r].revokedKey = KeyRevoked(req[r].apiKeyHeader)]
                 /\ UNCHANGED <<apiKeys, faults>>
            ELSE /\ WriteOutcome(ok)
                 /\ CountFault(ok)
                 /\ apiKeys' = IF ok THEN [apiKeys EXCEPT ![k].lastUsedAt = now] ELSE apiKeys
                 /\ req' = [req EXCEPT ![r] = [attachApiKeyAuth(@, k) EXCEPT
                                         !.revokedKey = KeyRevoked(req[r].apiKeyHeader),
                                         !.resolved = ok,
                                         !.lastUsedFault = ~ok,
                                         !.pc = IF ok THEN AfterApiKey(req[r].route) ELSE "done",
                                         !.status = IF ok THEN 0 ELSE 500]]
    /\ UNCHANGED <<users, jobs, usage, buckets, now, hist, rlLog, fallback>>

(* requireAuthOrApiKey (auth.middleware): some identity is required *)
requireAuthOrApiKey(r) ==
    /\ req[r].pc = "authOrKey"
    /\ req' = IF req[r].user = None /\ req[r].apiKey = None
              THEN Respond(r, 401)
              ELSE [req EXCEPT ![r].pc = "scope"]
    /\ UNCHANGED <<users, apiKeys, jobs, usage, buckets, now, faults, hist, rlLog, fallback>>

ensureScopeWhenPresent(r) ==
    /\ req[r].pc = "scope"
    /\ req' = IF req[r].apiKey = None
              THEN [req EXCEPT ![r].pc = "org"]
              ELSE IF ~hasScope(req[r].apiKey, RequiredScope(req[r].route))
                   THEN Respond(r, 403)
                   ELSE [req EXCEPT ![r].pc = "org"]
    /\ UNCHANGED <<users, apiKeys, jobs, usage, buckets, now, faults, hist, rlLog, fallback>>

hasOrgContextAlways(a) == TRUE

(* req.auth?.orgId *)
hasOrgContext(a) == a.orgId # None

requireOrgContextSkipped(r) ==
    /\ req[r].pc = "org"
    /\ req' = [req EXCEPT ![r].pc = "rate"]
    /\ UNCHANGED <<users, apiKeys, jobs, usage, buckets, now, faults, hist, rlLog, fallback>>

requireOrgContext(r) ==
    /\ req[r].pc = "org"
    /\ req' = IF hasOrgContext(req[r])
              THEN [req EXCEPT ![r].pc = "rate"]
              ELSE Respond(r, 401)
    /\ UNCHANGED <<users, apiKeys, jobs, usage, buckets, now, faults, hist, rlLog, fallback>>

----------------------------------------------------------------------------
(* Rate limiter *)

ReqIp == "10.0.0.1"

getKeyTenantFirst(a) ==
    IF a.orgId # None THEN <<"org", a.orgId>>
    ELSE IF a.apiKey # None THEN <<"api-key", a.apiKey>>
    ELSE <<"ip", ReqIp>>

getKeyPerTenant(a) ==
    IF a.orgId # None THEN <<"org", a.orgId>> ELSE <<"ip", ReqIp>>

getKey(a) ==
    IF a.apiKey # None THEN <<"api-key", a.apiKey>>
    ELSE IF a.orgId # None THEN <<"org", a.orgId>>
    ELSE <<"ip", ReqIp>>

effectiveLimitCredentialFirst(overrideLimit, a) ==
    IF a.apiKey # None /\ apiKeys[a.apiKey].rateLimitPerMinute # 0
    THEN apiKeys[a.apiKey].rateLimitPerMinute
    ELSE IF overrideLimit # 0 THEN overrideLimit
    ELSE DefaultLimit

(* overrideLimit || req.auth?.apiKey?.rateLimitPerMinute || config.rateLimit.defaultLimit *)
effectiveLimit(overrideLimit, a) ==
    IF overrideLimit # 0 THEN overrideLimit
    ELSE IF a.apiKey # None /\ apiKeys[a.apiKey].rateLimitPerMinute # 0
         THEN apiKeys[a.apiKey].rateLimitPerMinute
         ELSE DefaultLimit

bucketExpiredStrictly(key, t) == key \notin DOMAIN buckets \/ buckets[key].expiresAt < t

(* !bucket || bucket.expiresAt <= now *)
bucketExpired(key, t) == key \notin DOMAIN buckets \/ buckets[key].expiresAt <= t

bucketFullOnePastLimit(key, limit) == buckets[key].count > limit

(* bucket.count >= limit *)
bucketFull(key, limit) == buckets[key].count >= limit

retryAfterRoundedDown(expiresAt, t) == (expiresAt - t) \div MsPerSecond

(* Math.ceil((bucket.expiresAt - now) / 1000) *)
retryAfter(expiresAt, t) == 0 - ((t - expiresAt) \div MsPerSecond)

(* The answer of a rejection: res.setHeader('Retry-After', ...), status 429 *)
rejection(key, t) == [status |-> 429, retryAfter |-> retryAfter(buckets[key].expiresAt, t)]

rateLimitAdmits(key, limit, t) == bucketExpired(key, t) \/ ~bucketFull(key, limit)

bucketsAfterLosingIncrement(key, limit, t) ==
    IF bucketExpired(key, t)
    THEN [k \in DOMAIN buckets \cup {key} |->
             IF k = key THEN [count |-> 1, expiresAt |-> t + WindowMs] ELSE buckets[k]]
    ELSE buckets

bucketsAfterExtendingWindow(key, limit, t) ==
    IF bucketExpired(key, t)
    THEN [k \in DOMAIN buckets \cup {key} |->
             IF k = key THEN [count |-> 1, expiresAt |-> t + WindowMs] ELSE buckets[k]]
    ELSE IF bucketFull(key, limit)
         THEN buckets
         ELSE [buckets EXCEPT ![key].count = @ + 1, ![key].expiresAt = t + WindowMs]

(* const bucket = buckets.get(key) ... bucket.count += 1: one synchronous run,
   no await between the read and the write *)
bucketsAfter(key, limit, t) ==
    IF bucketExpired(key, t)
    THEN [k \in DOMAIN buckets \cup {key} |->
             IF k = key THEN [count |-> 1, expiresAt |-> t + WindowMs] ELSE buckets[k]]
    ELSE IF bucketFull(key, limit)
         THEN buckets
         ELSE [buckets EXCEPT ![key].count = @ + 1]

(* rateLimit() as mounted on the routes: no override *)
rateLimit(r) ==
    /\ req[r].pc = "rate"
    /\ LET key == getKey(req[r])
           limit == effectiveLimit(0, req[r])
       IN /\ buckets' = bucketsAfter(key, limit, now)
          /\ req' = IF rateLimitAdmits(key, limit, now)
                    THEN [req EXCEPT ![r].pc = "ctrl", ![r].rl = "admit", ![r].bucket = key]
                    ELSE [req EXCEPT ![r].pc = "done", ![r].rl = "reject", ![r].bucket = key,
                                     ![r].status = rejection(key, now).status,
                                     ![r].retryAfter = rejection(key, now).retryAfter]
    /\ UNCHANGED <<users, apiKeys, jobs, usage, now, faults, hist, rlLog, fallback>>

----------------------------------------------------------------------------
(* Controllers and services *)

FallbackOrgId == "o1"

getOrgContextFallbackOnly(a) ==
    [orgId |-> FallbackOrgId, userId |-> a.user, apiKeyId |-> a.apiKey]

(* getOrgContext(req) *)
getOrgContext(a) ==
    [orgId |-> IF a.orgId # None THEN a.orgId ELSE FallbackOrgId,
     userId |-> a.user,
     apiKeyId |-> a.apiKey]

FirstStep(kind) == IF kind = "stt" THEN "prepare" ELSE "create"

ThrowAndGoOnWithBatch(rq) ==
    IF IsBatch(rq.route) /\ rq.idx < rq.n
    THEN [rq EXCEPT !.idx = @ + 1, !.job = 0, !.pc = FirstStep(KindOf(rq.route))]
    ELSE [rq EXCEPT !.pc = "done", !.status = 500, !.message = rq.err]

(* An error thrown out of the service: the batch loop does not catch it, the
   controller hands it to errorHandler, which answers err.status || 500 *)
ThrowToBoundary(rq) ==
    LET answer == errorHandler([status |-> 0, message |-> rq.err]) IN
    [rq EXCEPT !.pc = "done", !.status = answer.status, !.message = answer.message]

(* controllers synthesize / synthesizeBatch / transcribe / batchTranscribe:
   the validated payload and the context go to the service *)
controller(r) ==
    /\ req[r].pc = "ctrl"
    /\ req' = [req EXCEPT ![r].pc = FirstStep(KindOf(req[r].route)), ![r].idx = 1]
    /\ UNCHANGED <<users, apiKeys, jobs, usage, buckets, now, faults, hist, rlLog, fallback>>

(* SttService.transcribe before the job exists: uploadBuffer, audioFile.create *)
sttPrepare(r, ok) ==
    /\ req[r].pc = "prepare"
    /\ WriteOutcome(ok)
    /\ CountFault(ok)
    /\ req' = [req EXCEPT ![r] = IF ok THEN [@ EXCEPT !.pc = "create"]
                                  ELSE ThrowToBoundary([@ EXCEPT !.err = "storage fault"])]
    /\ UNCHANGED <<users, apiKeys, jobs, usage, buckets, now, hist, rlLog, fallback>>

(* The columns a created row gets when the data leaves them out:
   "status" "JobStatus" NOT NULL DEFAULT 'queued', "error_message" TEXT *)
JobColumnDefaults == [status |-> "queued", errorMessage |-> None]

NewJobWithDefaultStatus(kind, ctx, text) ==
    [kind |-> kind, orgId |-> ctx.orgId, userId |-> ctx.userId, apiKeyId |-> ctx.apiKeyId,
     inputText |-> text] @@ JobColumnDefaults

(* data: { orgId, userId, apiKeyId, inputText, ..., status: JobStatus.processing } *)
NewJob(kind, ctx, text) ==
    [kind |-> kind, orgId |-> ctx.orgId, userId |-> ctx.userId, apiKeyId |-> ctx.apiKeyId,
     inputText |-> text, status |-> "processing"] @@ JobColumnDefaults

createJobRowDeduplicated(rows, row) ==
    IF \E j \in 1..Len(rows) : rows[j].orgId = row.orgId /\ rows[j].kind = row.kind
                                 /\ rows[j].inputText = row.inputText
    THEN rows
    ELSE Append(rows, row)

(* prisma.ttsJob.create / prisma.sttJob.create: always a new row with a new id *)
createJobRow(rows, row) == Append(rows, row)

NewHist(r, item, row) ==
    [req |-> r, item |-> item, provider |-> None, usageFault |-> FALSE, failFault |-> FALSE,
     createdAs |-> row.status]

(* prisma.ttsJob.create / prisma.sttJob.create, outside the try *)
createJob(r, ok) ==
    /\ req[r].pc = "create"
    /\ WriteOutcome(ok)
    /\ CountFault(ok)
    /\ IF ok
       THEN /\ jobs' = createJobRow(jobs, NewJob(KindOf(req[r].route), getOrgContext(req[r]),
                                                 req[r].text))
            /\ hist' = Append(hist, NewHist(r, req[r].idx, jobs'[Len(jobs')]))
            /\ req' = [req EXCEPT ![r].pc = "dispatch", ![r].job = Len(jobs')]
       ELSE /\ req' = [req EXCEPT ![r] = ThrowToBoundary([@ EXCEPT !.err = "storage fault"])]
            /\ UNCHANGED <<jobs, hist>>
    /\ UNCHANGED <<users, apiKeys, usage, buckets, now, rlLog, fallback>>

(* What the provider call can end in: a response reporting success, a thrown
   network error, a response that reports a status other than success, or no
   answer at all (the axios calls set no timeout) *)
ProviderOutcomes(kind) == {"success", "thrown", "nonSuccess", "noAnswer"}

afterDispatchStraightToUsage(kind, outcome) ==
    IF outcome = "noAnswer" THEN "awaiting"
    ELSE IF outcome = "thrown" THEN "fail"
    ELSE IF outcome = "nonSuccess" /\ kind = "tts" THEN "fail"
    ELSE "usage"

(* Where the service goes after the call: synthesis checks mlResponse.status
   and throws when it is not success; recognition reads the response's fields
   whatever its status; an await that never settles is never resumed *)
afterDispatch(kind, outcome) ==
    IF outcome = "noAnswer" THEN "awaiting"
    ELSE IF outcome = "thrown" THEN "fail"
    ELSE IF outcome = "nonSuccess" /\ kind = "tts" THEN "fail"
    ELSE "persist"

ProviderError(outcome) ==
    IF outcome = "thrown" THEN "Network Error" ELSE "TTS synthesis failed"

(* await mlTtsClient.synthesize / mlSttClient.transcribeWithMl, and the status check *)
dispatch(r) ==
    /\ req[r].pc = "dispatch"
    /\ \E outcome \in ProviderOutcomes(KindOf(req[r].route)) :
          /\ hist' = [hist EXCEPT ![req[r].job].provider = outcome]
          /\ LET pc == afterDispatch(KindOf(req[r].route), outcome) IN
             req' = [req EXCEPT ![r].calls = @ + 1,
                                ![r].pc = pc,
                                ![r].err = IF pc = "fail" THEN ProviderError(outcome) ELSE None]
    /\ UNCHANGED <<users, apiKeys, jobs, usage, buckets, now, faults, rlLog, fallback>>

(* prisma.audioFile.create / prisma.transcription.create (+ audioFile.update) *)
persistResult(r, ok) ==
    /\ req[r].pc = "persist"
    /\ WriteOutcome(ok)
    /\ CountFault(ok)
    /\ req' = [req EXCEPT ![r].pc = IF ok THEN "complete" ELSE "fail",
                          ![r].err = IF ok THEN None ELSE "storage fault"]
    /\ UNCHANGED <<users, apiKeys, jobs, usage, buckets, now, hist, rlLog, fallback>>

(* prisma.ttsJob.update / prisma.sttJob.update: status completed *)
completeJob(r, ok) ==
    /\ req[r].pc = "complete"
    /\ WriteOutcome(ok)
    /\ CountFault(ok)
    /\ jobs' = IF ok THEN [jobs EXCEPT ![req[r].job].status = "completed"] ELSE jobs
    /\ req' = [req EXCEPT ![r].pc = IF ok THEN "usage" ELSE "fail",
                          ![r].err = IF ok THEN None ELSE "storage fault"]
    /\ UNCHANGED <<users, apiKeys, usage, buckets, now, hist, rlLog, fallback>>

UsageRow(kind, ctx, j) ==
    [orgId |-> ctx.orgId, apiKeyId |-> ctx.apiKeyId, type |-> kind, jobId |-> j]

(* After the item's result is returned: the batch loop's next item, or res.json *)
AfterItem(rq) ==
    IF IsBatch(rq.route) /\ rq.idx < rq.n
    THEN [rq EXCEPT !.results = @ + 1, !.idx = @ + 1, !.job = 0,
                    !.pc = FirstStep(KindOf(rq.route))]
    ELSE [rq EXCEPT !.results = @ + 1, !.pc = "done", !.status = 200]

appendUsageTwice(rows, row) == Append(Append(rows, row), row)

(* UsageService.record: prisma.usageRecord.create, one new row *)
appendUsage(rows, row) == Append(rows, row)

(* Where an error of the usage append goes: it is thrown inside the try *)
onUsageError(rq) == [rq EXCEPT !.pc = "fail", !.err = "storage fault"]

(* prisma.usageRecord.create / UsageService.record, then return the result *)
recordUsage(r, ok) ==
    /\ req[r].pc = "usage"
    /\ WriteOutcome(ok)
    /\ CountFault(ok)
    /\ IF ok
       THEN /\ usage' = appendUsage(usage, UsageRow(KindOf(req[r].route), getOrgContext(req[r]), req[r].job))
            /\ req' = [req EXCEPT ![r] = AfterItem(@)]
            /\ UNCHANGED hist
       ELSE /\ hist' = [hist EXCEPT ![req[r].job].usageFault = TRUE]
            /\ req' = [req EXCEPT ![r] = onUsageError(@)]
            /\ UNCHANGED usage
    /\ UNCHANGED <<users, apiKeys, jobs, buckets, now, rlLog, fallback>>

failedJobWithoutMessage(job, msg) == [job EXCEPT !.status = "failed"]

(* data: { status: JobStatus.failed, errorMessage: error.message } *)
failedJob(job, msg) == [job EXCEPT !.status = "failed", !.errorMessage = msg]

(* catch (error): status failed, errorMessage error.message; throw error *)
failJob(r, ok) ==
    /\ req[r].pc = "fail"
    /\ WriteOutcome(ok)
    /\ CountFault(ok)
    /\ IF ok
       THEN /\ jobs' = [jobs EXCEPT ![req[r].job] = failedJob(@, req[r].err)]
            /\ UNCHANGED hist
       ELSE /\ hist' = [hist EXCEPT ![req[r].job].failFault = TRUE]
            /\ UNCHANGED jobs
    /\ req' = [req EXCEPT ![r] = ThrowToBoundary(@)]
    /\ UNCHANGED <<users, apiKeys, usage, buckets, now, rlLog, fallback>>

----------------------------------------------------------------------------
(* The environment: credential management, storage administration, time *)

(* The synchronous middlewares and the controller's start run to the next
   await without yielding: no other handler runs in between *)
InSynchronousRun(r) == req[r].pc \in {"authOrKey", "scope", "org", "rate", "ctrl"}
Yielded == \A r \in Reqs : ~InSynchronousRun(r)

(* Requests read users and apiKeys in optionalJwt and optionalApiKey only: a
   change is seen by the requests whose lookups are still ahead, and a change
   after the last lookup of the run is seen by no request *)
LookupAhead == \E r \in Reqs : req[r].pc \in {"idle", "jwt", "apikey"}

(* Administrative changes made so far, bounded by MaxChanges *)
Changes ==
    Cardinality({k \in DOMAIN apiKeys : apiKeys[k].revokedAt # NULL})
    + (IF users \in {InitUsers, AuthUsers} THEN 0 ELSE 1)

(* ApiKeyService.revoke as a function of the table: findFirst({ id, orgId }),
   404 when there is no such row, the row as it is when revokedAt is set,
   else update({ revokedAt: new Date() }) *)
ApiKeyService_revokeStampingAgain(orgId, apiKeyId) ==
    IF apiKeyId \notin DOMAIN apiKeys \/ apiKeys[apiKeyId].orgId # orgId
    THEN [status |-> 404, message |-> "API key not found", table |-> apiKeys]
    ELSE [status |-> 200, message |-> None,
          table |-> [apiKeys EXCEPT ![apiKeyId].revokedAt = now]]

ApiKeyService_revoke(orgId, apiKeyId) ==
    IF apiKeyId \notin DOMAIN apiKeys \/ apiKeys[apiKeyId].orgId # orgId
    THEN [status |-> 404, message |-> "API key not found", table |-> apiKeys]
    ELSE IF apiKeys[apiKeyId].revokedAt # NULL
         THEN [status |-> 200, message |-> None, table |-> apiKeys]
         ELSE [status |-> 200, message |-> None,
               table |-> [apiKeys EXCEPT ![apiKeyId].revokedAt = now]]

(* ApiKeyService.revoke(orgId, apiKeyId): not found for another tenant's key,
   the record unchanged when it is already revoked *)
revoke(orgId, apiKeyId) ==
    /\ Yielded /\ LookupAhead
    /\ Changes < MaxChanges
    /\ apiKeys' = ApiKeyService_revoke(orgId, apiKeyId).table
    /\ UNCHANGED <<users, jobs, usage, buckets, now, req, faults, hist, rlLog, fallback>>

(* A principal is moved to another tenant *)
MoveUser(u, org) ==
    /\ Yielded /\ LookupAhead
    /\ Changes < MaxChanges
    /\ u \in DOMAIN users
    /\ users[u].orgId # org
    /\ users' = [users EXCEPT ![u].orgId = org]
    /\ UNCHANGED <<apiKeys, jobs, usage, buckets, now, req, faults, hist, rlLog, fallback>>

(* A principal is removed *)
DeleteUser(u) ==
    /\ Yielded /\ LookupAhead
    /\ Changes < MaxChanges
    /\ u \in DOMAIN users
    /\ users' = [v \in DOMAIN users \ {u} |-> users[v]]
    /\ UNCHANGED <<apiKeys, jobs, usage, buckets, now, req, faults, hist, rlLog, fallback>>

Next ==
    \/ \E r \in Reqs : Arrive(r)
    \/ \E r \in Reqs : optionalJwt(r)
    \/ \E r \in Reqs, ok \in BOOLEAN : optionalApiKey(r, ok)
    \/ \E r \in Reqs : requireAuthOrApiKey(r)
    \/ \E r \in Reqs : ensureScopeWhenPresent(r)
    \/ \E r \in Reqs : requireOrgContext(r)
    \/ \E r \in Reqs : rateLimit(r)
    \/ \E r \in Reqs : controller(r)
    \/ \E r \in Reqs, ok \in BOOLEAN : sttPrepare(r, ok)
    \/ \E r \in Reqs, ok \in BOOLEAN : createJob(r, ok)
    \/ \E r \in Reqs : dispatch(r)
    \/ \E r \in Reqs, ok \in BOOLEAN : persistResult(r, ok)
    \/ \E r \in Reqs, ok \in BOOLEAN : completeJob(r, ok)
    \/ \E r \in Reqs, ok \in BOOLEAN : recordUsage(r, ok)
    \/ \E r \in Reqs, ok \in BOOLEAN : failJob(r, ok)
    \/ \E o \in Orgs, k \in DOMAIN apiKeys : revoke(o, k)
    \/ \E u \in DOMAIN users, o \in Orgs : MoveUser(u, o)
    \/ \E u \in DOMAIN users : DeleteUser(u)

Spec == Init /\ [][Next]_vars

----------------------------------------------------------------------------
(* The request pipeline when every storage write succeeds.  The event loop
   resumes every task whose await has settled, so each request keeps taking
   its next step as long as it has one *)

Step(r) ==
    \/ optionalJwt(r)
    \/ optionalApiKey(r, TRUE)
    \/ requireAuthOrApiKey(r)
    \/ ensureScopeWhenPresent(r)
    \/ requireOrgContext(r)
    \/ rateLimit(r)
    \/ controller(r)
    \/ sttPrepare(r, TRUE)
    \/ createJob(r, TRUE)
    \/ dispatch(r)
    \/ persistResult(r, TRUE)
    \/ completeJob(r, TRUE)
    \/ recordUsage(r, TRUE)
    \/ failJob(r, TRUE)

NextLive ==
    \/ \E r \in Reqs : Arrive(r)
    \/ \E r \in Reqs : Step(r)

SpecLive == Init /\ [][NextLive]_vars /\ \A r \in Reqs : WF_vars(Step(r))

----------------------------------------------------------------------------
(* Requests in flight at the same time, up to the controller's first await.
   A handler runs
   until its next await, so a request takes a step only while no other
   request is inside a synchronous run *)

Turn(r) == \A q \in Reqs \ {r} : ~InSynchronousRun(q)

NextConcurrent ==
    \E r \in Reqs :
        /\ Turn(r)
        /\ \/ Submit(r)
           \/ optionalJwt(r)
           \/ optionalApiKey(r, TRUE)
           \/ requireAuthOrApiKey(r)
           \/ ensureScopeWhenPresent(r)
           \/ requireOrgContext(r)
           \/ rateLimit(r)
           \/ controller(r)

SpecConcurrent == Init /\ [][NextConcurrent]_vars

----------------------------------------------------------------------------
(* Login and the management routes: one call at a time passes the guards its
   route mounts and, if none answers, reaches the route's handler *)

ManagementRoutes ==
    {"models/status", "models/reload", "analytics/usage", "auth/api-keys", "tts/voice-clone"}

(* The middlewares mounted in front of a route's handler *)
Guards(route) ==
    IF route \in {"models/status", "models/reload"} THEN <<>>
    ELSE IF route = "analytics/usage" THEN <<"requireJwt">>
    ELSE <<"requireJwt", "requireRole">>

(* requireRole([...]) of the route *)
AllowedRoles(route) ==
    IF route = "auth/api-keys" THEN {"owner", "admin"}
    ELSE IF route = "tts/voice-clone" THEN {"owner", "admin", "developer"}
    ELSE {}

IdleCall ==
    [pc |-> "idle", route |-> "models/status", bearer |-> NoAuthorization,
     apiKeyHeader |-> None, g |-> 1, user |-> None, orgId |-> None, role |-> None,
     status |-> 0, executed |-> FALSE, verified |-> FALSE, staleJwt |-> FALSE]

InitAuth ==
    /\ users = AuthUsers
    /\ apiKeys = InitApiKeys
    /\ jobs = <<>>
    /\ usage = <<>>
    /\ buckets = [k \in {} |-> 0]
    /\ now = 0
    /\ req = [r \in Reqs |-> IdleCall]
    /\ faults = 0
    /\ hist = <<>>
    /\ rlLog = <<>>
    /\ fallback = IdleFallback

(* prisma.user.findFirst({ where }): the candidates of a login *)
LoginMatches(email, orgSlug) ==
    {u \in DOMAIN users :
        /\ users[u].email = email
        /\ orgSlug # None => OrgSlug[users[u].orgId] = orgSlug}

LoginFailed(email, password, orgSlug) ==
    [email |-> email, password |-> password, orgSlug |-> orgSlug, status |-> 401, token |-> NoToken,
     user |-> None, record |-> InitUsers["u1"]]

(* AuthService.login(payload); findFirst returns any one of the candidates *)
login(email, password, orgSlug) ==
    /\ Len(hist) < MaxLogins
    /\ \/ /\ LoginMatches(email, orgSlug) = {}
          /\ hist' = Append(hist, LoginFailed(email, password, orgSlug))
       \/ \E u \in LoginMatches(email, orgSlug) :
             hist' = Append(hist,
                 IF bcryptCompare(password, users[u].passwordHash)
                 THEN [email |-> email, password |-> password, orgSlug |-> orgSlug,
                       status |-> 200,
                       token |-> buildToken(u, users[u], now),
                       user |-> u, record |-> users[u]]
                 ELSE LoginFailed(email, password, orgSlug))
    /\ UNCHANGED <<users, apiKeys, jobs, usage, buckets, now, req, faults, rlLog, fallback>>

(* The Authorization headers a caller may send: none, another scheme, tokens
   jwt.verify refuses, and the tokens the logins of the run returned *)
IssuedTokens == {hist[i].token : i \in {j \in 1..Len(hist) : hist[j].status = 200}}

ManagementHeaders ==
    {NoAuthorization, [scheme |-> "Basic", token |-> GarbageToken],
     Bearer(GarbageToken), Bearer(ForgedToken), Bearer(ExpiredToken)}
    \cup {Bearer(t) : t \in IssuedTokens}

Caller == 1

Call(r) ==
    /\ r = Caller
    /\ req[r].pc = "idle"
    /\ \E route \in ManagementRoutes, h \in ManagementHeaders, k \in {None, "s1"} :
          req' = [req EXCEPT ![r] = [IdleCall EXCEPT !.pc = "guard", !.route = route,
                                       !.bearer = h, !.apiKeyHeader = k]]
    /\ UNCHANGED <<users, apiKeys, jobs, usage, buckets, now, faults, hist, rlLog, fallback>>

AtGuard(r, name) ==
    /\ req[r].pc = "guard"
    /\ req[r].g <= Len(Guards(req[r].route))
    /\ Guards(req[r].route)[req[r].g] = name

(* requireJwt *)
requireJwt(r) ==
    /\ AtGuard(r, "requireJwt")
    /\ LET a == attachJwtToRequest(req[r].bearer)
           payload == JwtPayload(req[r].bearer.token)
           stale == a.verified /\ SubjectStale(payload)
       IN IF a.kind = "absent"
          THEN req' = [req EXCEPT ![r].pc = "done", ![r].status = 401]
          ELSE IF a.kind = "throw"
          THEN req' = [req EXCEPT ![r].pc = "done",
                                  ![r].status = errorHandler(a.err).status,
                                  ![r].verified = a.verified, ![r].staleJwt = stale]
          ELSE req' = [req EXCEPT ![r] = [attachJwtAuth(@, payload.sub) EXCEPT
                                              !.role = users[payload.sub].role,
                                              !.g = @ + 1, !.verified = TRUE,
                                              !.staleJwt = stale]]
    /\ UNCHANGED <<users, apiKeys, jobs, usage, buckets, now, faults, hist, rlLog, fallback>>

(* !roles.includes(req.auth.user.role) *)
roleRejected(role, roles) == role \notin roles

(* requireRole(roles) *)
requireRole(r) ==
    /\ AtGuard(r, "requireRole")
    /\ req' = IF req[r].user = None
              THEN [req EXCEPT ![r].pc = "done", ![r].status = 401]
              ELSE IF roleRejected(req[r].role, AllowedRoles(req[r].route))
              THEN [req EXCEPT ![r].pc = "done", ![r].status = 403]
              ELSE [req EXCEPT ![r].g = @ + 1]
    /\ UNCHANGED <<users, apiKeys, jobs, usage, buckets, now, faults, hist, rlLog, fallback>>

(* The route's handler: getModelsStatus, reloadModels, getUsage, createApiKey,
   cloneVoice *)
handler(r) ==
    /\ req[r].pc = "guard"
    /\ req[r].g > Len(Guards(req[r].route))
    /\ req' = [req EXCEPT ![r].pc = "done", ![r].status = 200, ![r].executed = TRUE]
    /\ UNCHANGED <<users, apiKeys, jobs, usage, buckets, now, faults, hist, rlLog, fallback>>

Emails == {"owner@acme.dev", "viewer@acme.dev"}
Passwords == {"pw1", "pw2", "pw3"}

NextAuth ==
    \/ \E e \in Emails, pw \in Passwords, slug \in {None, "acme-corp", "globex"} :
          login(e, pw, slug)
    \/ \E r \in Reqs : Call(r)
    \/ \E r \in Reqs : requireJwt(r)
    \/ \E r \in Reqs : requireRole(r)
    \/ \E r \in Reqs : handler(r)
    \/ \E u \in DOMAIN users, o \in Orgs : MoveUser(u, o)
    \/ \E u \in DOMAIN users : DeleteUser(u)

SpecAuth == InitAuth /\ [][NextAuth]_vars

----------------------------------------------------------------------------
(* The rate limiter alone: requests of resolved identities reach rateLimit()
   while the clock runs *)

(* req.auth of the requests: a key alone, a bearer identity together with a
   key (the key's tenant, attached last), a bearer identity alone, nothing *)
Identities ==
    { [user |-> None, apiKey |-> "k1", orgId |-> "o1"],
      [user |-> "u1", apiKey |-> "k2", orgId |-> "o2"],
      [user |-> "u1", apiKey |-> None, orgId |-> "o1"],
      [user |-> None, apiKey |-> None, orgId |-> None] }

(* One request through rateLimit(overrideLimit); 0 stands for no argument *)
limiterCall(overrideLimit, a) ==
    /\ Len(rlLog) < MaxRL
    /\ LET key == getKey(a)
           limit == effectiveLimit(overrideLimit, a)
       IN /\ buckets' = bucketsAfter(key, limit, now)
          /\ rlLog' = Append(rlLog,
                [identity |-> a, key |-> key, t |-> now, limit |-> limit,
                 override |-> overrideLimit,
                 admitted |-> rateLimitAdmits(key, limit, now),
                 answer |-> IF rateLimitAdmits(key, limit, now)
                            THEN [status |-> 0, retryAfter |-> 0]
                            ELSE rejection(key, now)])
    /\ UNCHANGED <<users, apiKeys, jobs, usage, now, req, faults, hist, fallback>>

(* rateLimit() as the routes mount it *)
limiterRequest(a) == limiterCall(0, a)

Tick ==
    /\ now < MaxTime
    /\ now' = now + TickMs
    /\ UNCHANGED <<users, apiKeys, jobs, usage, buckets, req, faults, hist, rlLog, fallback>>

NextRate ==
    \/ \E a \in Identities : limiterRequest(a)
    \/ Tick

SpecRate == Init /\ [][NextRate]_vars

(* The limiter mounted with and without an explicit limit; the clock stands
   still, so every request of a key falls in the key's first window *)
Overrides == {0, 1, 3}

NextOverride == \E o \in Overrides, a \in Identities : limiterCall(o, a)

SpecOverride == Init /\ [][NextOverride]_vars

----------------------------------------------------------------------------
(* The API key service over time: keys are issued, presented and revoked while
   the clock runs; storage writes succeed. hist logs every call with its
   answer *)

MaxKeyCalls == 3
MaxKeyTime == 1000

(* generateKey(): the values the random source returns in the run *)
GeneratedKeys == {"s3", "s4"}

(* The ids the storage gives to rows, in the order of creation *)
KeyIds == <<"k1", "k2", "k3", "k4">>

(* createApiKeySchema: the scope sets a request may ask for *)
RequestedScopes == {{"tts"}, {"tts", "stt"}}

ApiKeyService_createStoringPlainKey(orgId, data, value) ==
    LET id == KeyIds[Cardinality(DOMAIN apiKeys) + 1] IN
    [status |-> 201, id |-> id, value |-> value,
     table |-> [k \in DOMAIN apiKeys \cup {id} |->
                   IF k = id
                   THEN [orgId |-> orgId, keyHash |-> <<"plain", value>>, scopes |-> data.scopes,
                         rateLimitPerMinute |-> data.rateLimitPerMinute,
                         revokedAt |-> NULL, lastUsedAt |-> NULL]
                   ELSE apiKeys[k]]]

(* ApiKeyService.create with the value generateKey() returned: the row holds
   hashKey(value); key_hash is UNIQUE, so a digest already stored makes the
   insert throw (no status: 500) *)
ApiKeyService_create(orgId, data, value) ==
    LET id == KeyIds[Cardinality(DOMAIN apiKeys) + 1] IN
    IF \E k \in DOMAIN apiKeys : apiKeys[k].keyHash = hashKey(value)
    THEN [status |-> 500, id |-> None, value |-> None, table |-> apiKeys]
    ELSE [status |-> 201, id |-> id, value |-> value,
          table |-> [k \in DOMAIN apiKeys \cup {id} |->
                        IF k = id
                        THEN [orgId |-> orgId, keyHash |-> hashKey(value), scopes |-> data.scopes,
                              rateLimitPerMinute |-> data.rateLimitPerMinute,
                              revokedAt |-> NULL, lastUsedAt |-> NULL]
                        ELSE apiKeys[k]]]

(* createApiKey (controller) for a principal of tenant orgId *)
createApiKey(orgId, scopes, value) ==
    /\ Len(hist) < MaxKeyCalls
    /\ LET res == ApiKeyService_create(orgId, [scopes |-> scopes, rateLimitPerMinute |-> 0], value) IN
          /\ apiKeys' = res.table
          /\ hist' = Append(hist, [op |-> "create", orgId |-> orgId, scopes |-> scopes,
                                     status |-> res.status, id |-> res.id,
                                     value |-> res.value, at |-> now])
    /\ UNCHANGED <<users, jobs, usage, buckets, now, req, faults, rlLog, fallback>>

(* revokeApiKey (controller) for a principal of tenant orgId *)
revokeApiKey(orgId, apiKeyId) ==
    /\ Len(hist) < MaxKeyCalls
    /\ LET res == ApiKeyService_revoke(orgId, apiKeyId) IN
          /\ apiKeys' = res.table
          /\ hist' = Append(hist, [op |-> "revoke", orgId |-> orgId, id |-> apiKeyId,
                                     status |-> res.status,
                                     known |-> apiKeyId \in DOMAIN apiKeys,
                                     before |-> apiKeys, after |-> res.table, at |-> now])
    /\ UNCHANGED <<users, jobs, usage, buckets, now, req, faults, rlLog, fallback>>

(* attachApiKey with the x-api-key header: 401 for no row or a revoked row,
   else the row and its tenant are attached and lastUsedAt is written *)
attachApiKey(header) ==
    /\ Len(hist) < MaxKeyCalls
    /\ LET k == findApiKey(hashKey(header)) IN
          IF apiKeyRejected(k)
          THEN /\ hist' = Append(hist, [op |-> "attach", header |-> header, status |-> 401,
                                          apiKey |-> None, orgId |-> None, at |-> now])
               /\ UNCHANGED apiKeys
          ELSE /\ hist' = Append(hist, [op |-> "attach", header |-> header, status |-> 0,
                                          apiKey |-> k, orgId |-> apiKeys[k].orgId, at |-> now])
               /\ apiKeys' = [apiKeys EXCEPT ![k].lastUsedAt = now]
    /\ UNCHANGED <<users, jobs, usage, buckets, now, req, faults, rlLog, fallback>>

KeyTick ==
    /\ now < MaxKeyTime
    /\ now' = now + TickMs
    /\ UNCHANGED <<users, apiKeys, jobs, usage, buckets, req, faults, hist, rlLog, fallback>>

PresentedKeys == {"s1", "s3", "s4", "sx"}

NextKeys ==
    \/ \E o \in Orgs, sc \in RequestedScopes, v \in GeneratedKeys : createApiKey(o, sc, v)
    \/ \E o \in Orgs, k \in {"k1", "k3", "k4"} : revokeApiKey(o, k)
    \/ \E h \in PresentedKeys : attachApiKey(h)
    \/ KeyTick

SpecKeys == Init /\ [][NextKeys]_vars

----------------------------------------------------------------------------
(* The fallback tenant: callers of ensureFallbackOrgId interleave at its
   awaits with the storage calls of the lookup; reads succeed, a write may
   fault with or without having been committed *)

(* process.env.DEV_ORG_ID and the organizations stored before the first call *)
InitFallback ==
    /\ users = InitUsers
    /\ apiKeys = InitApiKeys
    /\ jobs = <<>>
    /\ usage = <<>>
    /\ buckets = [k \in {} |-> 0]
    /\ now = 0
    /\ req = [r \in Reqs |-> IdleReq]
    /\ faults = 0
    /\ hist = <<>>
    /\ rlLog = <<>>
    /\ \E orgs \in {<<>>, <<"o1">>}, dev \in {None, "dev"} :
          fallback = [IdleFallback EXCEPT !.organizations = orgs, !.devOrgId = dev]

(* The id the storage gives to the organization created with slug dev-playground *)
CreatedOrgId == "dev-playground"

InTable(id, orgs) == \E i \in 1..Len(orgs) : orgs[i] = id

(* fallbackOrgPromise = (async () => { ... })(): the function runs to its
   first await, the upsert when DEV_ORG_ID is set and else the findFirst *)
startLookup(f) ==
    [f EXCEPT !.promises = Append(@, [state |-> "pending", value |-> None,
                                      step |-> IF f.devOrgId # None THEN "upsert" ELSE "findFirst"]),
              !.storageCalls = @ + 1]

joinsFlightNever(f) == FALSE

(* if (fallbackOrgPromise) return fallbackOrgPromise *)
joinsFlight(f) == f.fallbackOrgPromise # 0

(* ensureFallbackOrgId() from the call to its first await or return *)
ensureFallbackOrgId(c) ==
    /\ fallback.callers[c].pc = "idle"
    /\ fallback' =
          IF fallback.cachedFallbackOrgId # None
          THEN [fallback EXCEPT !.callers[c] = [pc |-> "returned", promise |-> 0,
                                                result |-> fallback.cachedFallbackOrgId]]
          ELSE IF joinsFlight(fallback)
          THEN [fallback EXCEPT !.callers[c] = [pc |-> "joined", result |-> None,
                                                promise |-> fallback.fallbackOrgPromise]]
          ELSE LET f == startLookup(fallback) IN
               [f EXCEPT !.fallbackOrgPromise = Len(f.promises),
                         !.callers[c] = [pc |-> "awaiting", result |-> None,
                                         promise |-> Len(f.promises)]]
    /\ UNCHANGED <<users, apiKeys, jobs, usage, buckets, now, req, faults, hist, rlLog>>

Settled(f, p, state, value) ==
    [f EXCEPT !.promises[p] = [state |-> state, value |-> value, step |-> "end"]]

Stored(f, id) ==
    IF InTable(id, f.organizations) THEN f
    ELSE [f EXCEPT !.organizations = Append(@, id), !.created = @ + 1]

(* A storage call of the lookup p answers: upsert, findFirst or create *)
lookupStep(p, ok, committed) ==
    /\ p \in 1..Len(fallback.promises)
    /\ fallback.promises[p].state = "pending"
    /\ LET step == fallback.promises[p].step IN
       IF step = "findFirst"
       THEN /\ ok /\ committed
            /\ fallback' = IF fallback.organizations # <<>>
                            THEN Settled(fallback, p, "fulfilled", fallback.organizations[1])
                            ELSE [fallback EXCEPT !.promises[p].step = "create",
                                                  !.storageCalls = @ + 1]
            /\ UNCHANGED faults
       ELSE LET id == IF step = "upsert" THEN fallback.devOrgId ELSE CreatedOrgId IN
            /\ WriteOutcome(ok)
            /\ CountFault(ok)
            /\ ok => committed
            /\ fallback' = IF ok
                            THEN Settled(Stored(fallback, id), p, "fulfilled", id)
                            ELSE Settled(IF committed THEN Stored(fallback, id) ELSE fallback,
                                         p, "rejected", None)
    /\ UNCHANGED <<users, apiKeys, jobs, usage, buckets, now, req, hist, rlLog>>

(* The caller that made the promise resumes from `await fallbackOrgPromise`:
   the cache is set on success, and finally resets fallbackOrgPromise *)
resume(c) ==
    /\ fallback.callers[c].pc = "awaiting"
    /\ LET p == fallback.promises[fallback.callers[c].promise] IN
       /\ p.state # "pending"
       /\ fallback' =
             IF p.state = "fulfilled"
             THEN [fallback EXCEPT !.cachedFallbackOrgId = p.value,
                                   !.fallbackOrgPromise = 0,
                                   !.callers[c].pc = "returned",
                                   !.callers[c].result = p.value]
             ELSE [fallback EXCEPT !.fallbackOrgPromise = 0,
                                   !.callers[c].pc = "threw"]
    /\ UNCHANGED <<users, apiKeys, jobs, usage, buckets, now, req, faults, hist, rlLog>>

(* A caller that returned the promise of another receives its outcome *)
adopt(c) ==
    /\ fallback.callers[c].pc = "joined"
    /\ LET p == fallback.promises[fallback.callers[c].promise] IN
       /\ p.state # "pending"
       /\ fallback' =
             IF p.state = "fulfilled"
             THEN [fallback EXCEPT !.callers[c].pc = "returned", !.callers[c].result = p.value]
             ELSE [fallback EXCEPT !.callers[c].pc = "threw"]
    /\ UNCHANGED <<users, apiKeys, jobs, usage, buckets, now, req, faults, hist, rlLog>>

NextFallback ==
    \/ \E c \in Callers : ensureFallbackOrgId(c)
    \/ \E p \in 1..MaxCallers, ok \in BOOLEAN, committed \in BOOLEAN : lookupStep(p, ok, committed)
    \/ \E c \in Callers : resume(c)
    \/ \E c \in Callers : adopt(c)

SpecFallback == InitFallback /\ [][NextFallback]_vars

----------------------------------------------------------------------------
(* Billed units: what the success path of a job computes from the provider's
   response, for provider responses of every shape; storage writes succeed *)

(* JavaScript values as they arrive in the response's JSON *)
JsUndefined == [t |-> "undefined", n |-> 0, s |-> <<>>]
JsNaN == [t |-> "NaN", n |-> 0, s |-> <<>>]
JsNumber(n) == [t |-> "number", n |-> n, s |-> <<>>]
JsString(s) == [t |-> "string", n |-> 0, s |-> s]

Digits == <<"0", "1", "2", "3", "4", "5", "6", "7", "8", "9">>
IsDigit(c) == \E d \in 1..Len(Digits) : Digits[d] = c
DigitValue(c) == (CHOOSE d \in 1..Len(Digits) : Digits[d] = c) - 1

RECURSIVE DigitsValue(_)
DigitsValue(s) ==
    IF s = <<>> THEN 0
    ELSE 10 * DigitsValue(SubSeq(s, 1, Len(s) - 1)) + DigitValue(s[Len(s)])

AllDigits(s) == s # <<>> /\ \A i \in 1..Len(s) : IsDigit(s[i])

(* Number(string): the empty string converts to 0, a decimal numeral to its
   value, anything else to NaN *)
StringToNumber(s) ==
    IF s = <<>> THEN JsNumber(0)
    ELSE IF AllDigits(s) THEN JsNumber(DigitsValue(s))
    ELSE IF s[1] = "-" /\ AllDigits(Tail(s)) THEN JsNumber(0 - DigitsValue(Tail(s)))
    ELSE JsNaN

(* Number(value) *)
ToNumber(v) ==
    IF v.t = "number" THEN v
    ELSE IF v.t = "string" THEN StringToNumber(v.s)
    ELSE JsNaN

(* a ?? b *)
Coalesce(a, b) == IF a.t = "undefined" THEN b ELSE a

(* resolveCharacterUnits(text, meta) *)
resolveCharacterUnits(text, meta) ==
    LET rawValue == Coalesce(meta.char_count, Coalesce(meta.characters, meta.charCount)) IN
    IF rawValue.t = "number" THEN rawValue.n
    ELSE IF rawValue.t = "string" /\ ToNumber(rawValue).t # "NaN" THEN ToNumber(rawValue).n
    ELSE Len(text)

(* mlResponse.timestamps?.[mlResponse.timestamps.length - 1]?.end *)
lastTimestampEnd(timestamps) ==
    IF timestamps = <<>> THEN JsUndefined ELSE JsNumber(timestamps[Len(timestamps)].end)

deriveDurationSecondsFromTimestampsOnly(mlResponse) == lastTimestampEnd(mlResponse.timestamps)

(* deriveDurationSeconds(mlResponse) *)
deriveDurationSeconds(mlResponse) ==
    LET metaDuration == ToNumber(mlResponse.meta.duration_seconds) IN
    IF metaDuration.t # "NaN" /\ metaDuration.n > 0
    THEN metaDuration
    ELSE lastTimestampEnd(mlResponse.timestamps)

(* units: durationSeconds ?? 0 *)
durationUnits(mlResponse) == Coalesce(deriveDurationSeconds(mlResponse), JsNumber(0)).n

NoMeta == [char_count |-> JsUndefined, characters |-> JsUndefined, charCount |-> JsUndefined]

(* The meta of synthesis responses: no count, a count under each of the three
   names, as a number or as a string, and strings that are no numeral *)
TtsMetas ==
    { NoMeta,
      [NoMeta EXCEPT !.char_count = JsNumber(5)],
      [NoMeta EXCEPT !.char_count = JsNumber(0 - 1)],
      [NoMeta EXCEPT !.char_count = JsString(<<"7">>)],
      [NoMeta EXCEPT !.char_count = JsString(<<"x">>)],
      [NoMeta EXCEPT !.char_count = JsString(<<>>)],
      [NoMeta EXCEPT !.characters = JsNumber(4)],
      [NoMeta EXCEPT !.charCount = JsString(<<"1", "2">>)],
      [NoMeta EXCEPT !.char_count = JsNumber(5), !.characters = JsNumber(4)] }

Durations ==
    { JsUndefined, JsNumber(7), JsNumber(0), JsNumber(0 - 2), JsString(<<"3">>) }

TimestampLists ==
    { <<>>, <<[end |-> 2], [end |-> 4]>>, <<[end |-> 0 - 1]>> }

(* Recognition responses *)
SttResponses ==
    { [meta |-> [duration_seconds |-> d], timestamps |-> ts] :
        d \in Durations, ts \in TimestampLists }

MaxBilled == 2

BillingContext == getOrgContext([orgId |-> "o1", user |-> "u1", apiKey |-> None])

CompletedJob(kind, text) == [NewJob(kind, BillingContext, text) EXCEPT !.status = "completed"]

BilledRow(kind, units) ==
    UsageRow(kind, BillingContext, Len(jobs) + 1) @@ [units |-> units]

(* TtsService.synthesize, the provider answering success with this meta:
   job created, completed, usage appended with the resolved units *)
synthesizeBilled(text, meta) ==
    /\ Len(jobs) < MaxBilled
    /\ jobs' = createJobRow(jobs, CompletedJob("tts", text))
    /\ hist' = Append(hist, [kind |-> "tts", meta |-> meta])
    /\ usage' = appendUsage(usage, BilledRow("tts", resolveCharacterUnits(text, meta)))
    /\ UNCHANGED <<users, apiKeys, buckets, now, req, faults, rlLog, fallback>>

(* SttService.transcribe, the provider answering with this response *)
transcribeBilled(mlResponse) ==
    /\ Len(jobs) < MaxBilled
    /\ jobs' = createJobRow(jobs, CompletedJob("stt", <<>>))
    /\ hist' = Append(hist, [kind |-> "stt", response |-> mlResponse])
    /\ usage' = appendUsage(usage, BilledRow("stt", durationUnits(mlResponse)))
    /\ UNCHANGED <<users, apiKeys, buckets, now, req, faults, rlLog, fallback>>

NextBilling ==
    \/ \E text \in Texts, meta \in TtsMetas : synthesizeBilled(text, meta)
    \/ \E mlResponse \in SttResponses : transcribeBilled(mlResponse)

SpecBilling == Init /\ [][NextBilling]_vars

----------------------------------------------------------------------------
(* Properties *)

JobIds == 1..Len(jobs)
JobsOf(r) == {j \in JobIds : hist[j].req = r}
UsageOf(j) == {u \in 1..Len(usage) : usage[u].jobId = j}
Terminal == {"completed", "failed"}
Handled(j) == req[hist[j].req].pc = "done"

(* C1: once a job's persisted status is completed or failed, no later write
   changes it; in particular no job goes from completed to failed. *)
C1_TerminalStatusIsFinal ==
    [][\A j \in JobIds : jobs[j].status \in Terminal => jobs'[j].status = jobs[j].status]_vars

(* C2: when the usage append faults after the job was written completed, the
   job stays completed and the caller still receives the successful result. *)
C2_UsageFaultKeepsJobCompleted ==
    \A j \in JobIds :
        hist[j].usageFault =>
            /\ jobs[j].status = "completed"
            /\ Handled(j) => req[hist[j].req].status = 200

(* C3 as claimed: a job whose provider call threw ends failed with a non-empty
   error message, has no usage record, and its caller receives an error. *)
C3_ProviderFailureEndsFailed ==
    \A j \in JobIds :
        hist[j].provider = "thrown" =>
            /\ UsageOf(j) = {}
            /\ Handled(j) =>
                  /\ req[hist[j].req].status # 200
                  /\ jobs[j].status = "failed"
                  /\ jobs[j].errorMessage \notin {None, ""}

(* C3 amended: a job whose provider call threw never has a usage record and
   its caller receives an error; it ends failed with a non-empty error message
   when the failure-path status write succeeds, and stays processing when that
   write itself faults. *)
C3_ProviderFailureEndsFailedUnlessWriteFaults ==
    \A j \in JobIds :
        hist[j].provider = "thrown" =>
            /\ UsageOf(j) = {}
            /\ Handled(j) =>
                  /\ req[hist[j].req].status # 200
                  /\ IF hist[j].failFault
                     THEN jobs[j].status = "processing"
                     ELSE /\ jobs[j].status = "failed"
                          /\ jobs[j].errorMessage \notin {None, ""}

C3_Witness ==
    \E j \in JobIds :
        /\ hist[j].provider = "thrown"
        /\ Handled(j)
        /\ jobs[j].status = "failed"
        /\ jobs[j].errorMessage = "Network Error"

(* C4: a batch of N items always creates N jobs, whatever items fail, and the
   numbers of completed jobs and of usage records both equal the number of
   items whose provider call succeeded (stated for runs without storage fault). *)
C4_BatchCreatesEveryJob ==
    \A r \in Reqs :
        (IsBatch(req[r].route) /\ req[r].pc = "done" /\ req[r].rl = "admit" /\ faults = 0) =>
            /\ Cardinality(JobsOf(r)) = req[r].n
            /\ Cardinality({j \in JobsOf(r) : jobs[j].status = "completed"})
                 = Cardinality({j \in JobsOf(r) : hist[j].provider = "success"})
            /\ Cardinality({u \in 1..Len(usage) : usage[u].jobId \in JobsOf(r)})
                 = Cardinality({j \in JobsOf(r) : hist[j].provider = "success"})

(* The limiter's log replayed as fixed windows: a key's first request opens a
   window; a request at or after the expiry of its key's window opens the next *)
SameKeyBefore(i) == {j \in 1..(i - 1) : rlLog[j].key = rlLog[i].key}

Max(S) == CHOOSE x \in S : \A y \in S : y <= x

RECURSIVE WindowStart(_)
(* The log entry that opened the window request i falls in *)
WindowStart(i) ==
    IF SameKeyBefore(i) = {} THEN i
    ELSE LET ws == WindowStart(Max(SameKeyBefore(i))) IN
         IF rlLog[i].t >= rlLog[ws].t + WindowMs THEN i ELSE ws

PositionInWindow(i) ==
    Cardinality({j \in WindowStart(i)..i : rlLog[j].key = rlLog[i].key})

LastOfKey(i) == \A j \in (i + 1)..Len(rlLog) : rlLog[j].key # rlLog[i].key

(* C5: for the requests of one bucket key with limit L, the first L inside a
   window are admitted and the later ones rejected; the first request at or
   after the window's expiry instant is admitted and starts a fresh window
   with count 1. *)
C5_FixedWindowAdmission ==
    \A i \in 1..Len(rlLog) :
        /\ rlLog[i].limit >= 1
        /\ rlLog[i].admitted <=> PositionInWindow(i) <= rlLog[i].limit
        /\ (LastOfKey(i) /\ WindowStart(i) = i) =>
              buckets[rlLog[i].key] = [count |-> 1, expiresAt |-> rlLog[i].t + WindowMs]

C5_Witness ==
    \E i, j, k \in 1..Len(rlLog) :
        /\ i < j /\ j < k
        /\ rlLog[i].key = rlLog[j].key /\ rlLog[j].key = rlLog[k].key
        /\ rlLog[i].admitted /\ ~rlLog[j].admitted /\ rlLog[k].admitted
        /\ WindowStart(j) = i
        /\ rlLog[k].t = rlLog[i].t + WindowMs
        /\ buckets[rlLog[k].key].count = 1

(* C6: a request presenting a key whose record is revoked when it is resolved
   is answered 401 although the digest matches: no credential is attached, no
   job is created and no provider call is made for it. *)
C6_RevokedKeyRejected ==
    \A r \in Reqs :
        req[r].revokedKey =>
            /\ req[r].pc = "done" /\ req[r].status = 401
            /\ req[r].apiKey = None
            /\ JobsOf(r) = {} /\ req[r].calls = 0

C6_Witness == \E r \in Reqs : req[r].revokedKey /\ req[r].status = 401

(* C7: a well-signed bearer token whose subject now belongs to another tenant
   than the token claims, or no longer exists, is answered 401 and attaches no
   identity to the request. *)
C7_StaleBearerRejected ==
    \A r \in Reqs :
        req[r].staleJwt =>
            /\ req[r].pc = "done" /\ req[r].status = 401
            /\ req[r].user = None /\ req[r].orgId = None /\ req[r].apiKey = None
            /\ JobsOf(r) = {}

C7_Witness ==
    \E r \in Reqs :
        /\ req[r].staleJwt /\ req[r].status = 401
        /\ \E u \in DOMAIN users : u = JwtPayload(req[r].bearer.token).sub

(* The request passed credential resolution with a key that lacks the scope
   of its route *)
LacksScope(r) ==
    /\ req[r].resolved
    /\ req[r].apiKey # None
    /\ RequiredScope(req[r].route) \notin apiKeys[req[r].apiKey].scopes

(* C8: a request whose resolved API key lacks the scope its route requires is
   answered 403 before any job is created, before any provider call and before
   the rate limiter sees it. *)
C8_MissingScopeForbidden ==
    \A r \in Reqs :
        LacksScope(r) =>
            /\ JobsOf(r) = {} /\ req[r].calls = 0
            /\ req[r].rl = None
            /\ req[r].pc \in {"authOrKey", "scope", "done"}
            /\ req[r].pc = "done" => req[r].status = 403

C8_Witness ==
    \E r \in Reqs :
        /\ LacksScope(r) /\ req[r].status = 403
        /\ \A k \in DOMAIN buckets : k # getKey(req[r])

(* The tenant of the identity a request's headers resolve to: the key's when
   a key is presented (resolved last), else the bearer's *)
IdentityTenant(r) ==
    IF req[r].apiKeyHeader # None
    THEN apiKeys[CHOOSE k \in DOMAIN apiKeys : apiKeys[k].keyHash = hashKey(req[r].apiKeyHeader)].orgId
    ELSE JwtPayload(req[r].bearer.token).orgId

(* C9: every job and every usage record carries the tenant id of the identity
   resolved for the request that created it, and the usage record of a job has
   the job's tenant id and credential id. *)
C9_TenantOfIdentity ==
    /\ \A j \in JobIds :
          /\ jobs[j].orgId = IdentityTenant(hist[j].req)
          /\ jobs[j].orgId = req[hist[j].req].orgId
    /\ \A u \in 1..Len(usage) :
          /\ usage[u].jobId \in JobIds
          /\ usage[u].orgId = jobs[usage[u].jobId].orgId
          /\ usage[u].apiKeyId = jobs[usage[u].jobId].apiKeyId
          /\ usage[u].orgId = IdentityTenant(hist[usage[u].jobId].req)

C9_Witness ==
    \E u \in 1..Len(usage) :
        /\ usage[u].orgId = "o2" /\ usage[u].apiKeyId = "k2"
        /\ jobs[usage[u].jobId].orgId = "o2"

(* C10 as claimed: a resolved identity never has both a principal and a
   credential. *)
C10_NeverPrincipalAndCredential ==
    \A r \in Reqs : req[r].resolved => ~(req[r].user # None /\ req[r].apiKey # None)

(* C10 amended: a resolved identity has a principal exactly when a bearer token
   was presented and a credential exactly when an API key was presented: one of
   them for one header, neither for none, both for both. *)
C10_PrincipalAndCredentialFollowHeaders ==
    \A r \in Reqs :
        req[r].resolved =>
            /\ req[r].user # None <=> req[r].bearer # NoAuthorization
            /\ req[r].apiKey # None <=> req[r].apiKeyHeader # None

C10_Witness ==
    \E r \in Reqs : req[r].resolved /\ req[r].user # None /\ req[r].apiKey # None

(* Usage rows are only ever appended: the rows already written stay as they
   are, in place *)
UsageAppendOnly ==
    /\ Len(usage') >= Len(usage)
    /\ \A u \in 1..Len(usage) : usage'[u] = usage[u]

(* C11 as claimed: usage records are only appended, never changed or removed;
   no job has more than one, and every job that ends completed has exactly
   one. *)
C11_OneUsagePerCompletedJob ==
    /\ [][UsageAppendOnly]_vars
    /\ [](\A j \in JobIds :
            /\ Cardinality(UsageOf(j)) <= 1
            /\ (Handled(j) /\ jobs[j].status = "completed") => Cardinality(UsageOf(j)) = 1)

(* C11 amended: usage records are only appended, never changed or removed; no
   job has more than one, a record references a completed job only, and a job
   that ends completed has exactly one unless its usage append faulted and the
   failure-path status write faulted too, in which case it stays completed
   with none. *)
C11_OneUsagePerCompletedJobUnlessWritesFault ==
    /\ [][UsageAppendOnly]_vars
    /\ [](\A j \in JobIds :
            /\ Cardinality(UsageOf(j)) <= 1
            /\ UsageOf(j) # {} => jobs[j].status = "completed"
            /\ (Handled(j) /\ jobs[j].status = "completed") =>
                  IF hist[j].usageFault /\ hist[j].failFault
                  THEN UsageOf(j) = {}
                  ELSE Cardinality(UsageOf(j)) = 1)

C11_Witness ==
    /\ Len(usage) >= 2
    /\ \E j \in JobIds :
          /\ Handled(j) /\ jobs[j].status = "completed"
          /\ \E u \in 1..Len(usage) : UsageOf(j) = {u}

(* Two requests that submit the same synthesis input under the same identity,
   both answered with the result *)
SameSubmission(r, q) ==
    /\ r # q
    /\ req[r].route = "synthesize" /\ req[q].route = "synthesize"
    /\ req[r].text = req[q].text
    /\ req[r].bearer = req[q].bearer /\ req[r].apiKeyHeader = req[q].apiKeyHeader
    /\ req[r].status = 200 /\ req[q].status = 200

(* C12: the same synthesis input submitted twice by the same identity, both
   provider calls succeeding, gives two jobs with distinct ids and two usage
   records, each referencing its own job. *)
C12_NoDeduplication ==
    \A r, q \in Reqs :
        SameSubmission(r, q) =>
            \E j, k \in JobIds, u, v \in 1..Len(usage) :
                /\ j # k /\ u # v
                /\ JobsOf(r) = {j} /\ JobsOf(q) = {k}
                /\ jobs[j].inputText = req[r].text /\ jobs[k].inputText = req[q].text
                /\ hist[j].provider = "success" /\ hist[k].provider = "success"
                /\ UsageOf(j) = {u} /\ UsageOf(k) = {v}

C12_Witness ==
    \E r, q \in Reqs :
        /\ SameSubmission(r, q)
        /\ Len(jobs) = 2 /\ jobs[1].inputText = jobs[2].inputText
        /\ jobs[1].orgId = jobs[2].orgId
        /\ Len(usage) = 2

(* What a response value reports: a number, or a string that is a decimal
   numeral *)
IsNumeral(str) == AllDigits(str) \/ (str # <<>> /\ str[1] = "-" /\ AllDigits(Tail(str)))
Reports(v) == v.t = "number" \/ (v.t = "string" /\ IsNumeral(v.s))
Reported(v) ==
    IF v.t = "number" THEN v.n
    ELSE IF AllDigits(v.s) THEN DigitsValue(v.s) ELSE 0 - DigitsValue(Tail(v.s))

SttJobs == {j \in JobIds : jobs[j].kind = "stt" /\ jobs[j].status = "completed"}
TtsJobs == {j \in JobIds : jobs[j].kind = "tts" /\ jobs[j].status = "completed"}
UnitsOf(j) == usage[CHOOSE u \in UsageOf(j) : TRUE].units

(* The end of the last word timestamp, 0 for an empty list *)
LastEndOrZero(ts) == IF ts = <<>> THEN 0 ELSE ts[Len(ts)].end

(* C13 as claimed: the billed units of a completed recognition job are the
   provider-reported duration when the provider reports one, otherwise the end
   of the last word timestamp, otherwise 0. *)
C13_DurationUnits ==
    \A j \in SttJobs :
        LET d == hist[j].response.meta.duration_seconds IN
        /\ UsageOf(j) # {}
        /\ UnitsOf(j) = IF Reports(d) THEN Reported(d)
                        ELSE LastEndOrZero(hist[j].response.timestamps)

(* C13 amended: the billed units of a completed recognition job are the
   provider-reported duration when the provider reports one greater than 0,
   otherwise the end of the last word timestamp, otherwise 0; a missing
   duration with an empty timestamp list gives 0 units on a completed job. *)
C13_PositiveDurationUnits ==
    \A j \in SttJobs :
        LET d == hist[j].response.meta.duration_seconds IN
        /\ UsageOf(j) # {}
        /\ UnitsOf(j) = IF Reports(d) /\ Reported(d) > 0 THEN Reported(d)
                        ELSE LastEndOrZero(hist[j].response.timestamps)
        /\ (d = JsUndefined /\ hist[j].response.timestamps = <<>>) => UnitsOf(j) = 0

C13_Witness ==
    \E j, k \in SttJobs :
        /\ hist[j].response.meta.duration_seconds = JsUndefined
        /\ hist[j].response.timestamps = <<>>
        /\ UnitsOf(j) = 0
        /\ hist[k].response.meta.duration_seconds = JsNumber(7)
        /\ hist[k].response.timestamps # <<>>
        /\ UnitsOf(k) = 7

(* C14: every usage record ever appended has units >= 0. *)
C14_UnitsNeverNegative ==
    \A u \in 1..Len(usage) : usage[u].units >= 0

(* The count a synthesis response carries: the first of meta.char_count,
   meta.characters, meta.charCount that is there *)
CarriedCount(meta) ==
    IF meta.char_count # JsUndefined THEN meta.char_count
    ELSE IF meta.characters # JsUndefined THEN meta.characters
    ELSE meta.charCount

(* C15: the billed units of a completed synthesis job are the provider-reported
   character count when the response carries one, and the length of the job's
   input text otherwise. *)
C15_CharacterUnits ==
    \A j \in TtsJobs :
        /\ UsageOf(j) # {}
        /\ UnitsOf(j) = IF Reports(CarriedCount(hist[j].meta))
                        THEN Reported(CarriedCount(hist[j].meta))
                        ELSE Len(jobs[j].inputText)

(* The most jobs the requests can create *)
MaxJobs == Cardinality(Reqs) * MaxItems

(* C16: when storage writes succeed, every created job eventually leaves
   processing and reaches failed or completed, whatever the provider does,
   even when it never answers. *)
C16_EveryJobLeavesProcessing ==
    \A j \in 1..MaxJobs :
        (j \in JobIds) ~> (j \in JobIds /\ jobs[j].status \in Terminal)

(* C17: a provider response that reports a status other than success is
   handled like a thrown error, for synthesis and for recognition: the job is
   not completed and no usage record is written for it. *)
C17_NonSuccessEndsFailed ==
    \A j \in JobIds :
        hist[j].provider = "nonSuccess" =>
            /\ jobs[j].status # "completed"
            /\ UsageOf(j) = {}
            /\ Handled(j) => req[hist[j].req].status # 200

(* C18: when the key resolved and the write of its last-used time faulted, the
   request goes on with the resolved identity and is not answered with an
   error for it. *)
C18_LastUsedFaultDoesNotFailRequest ==
    \A r \in Reqs :
        req[r].lastUsedFault =>
            /\ req[r].apiKey # None
            /\ req[r].resolved
            /\ ~(req[r].pc = "done" /\ req[r].status = 500 /\ JobsOf(r) = {})

(* The whole number of seconds that covers ms milliseconds *)
WholeSecondsUp(ms) ==
    CHOOSE n \in 0..(ms \div 1000 + 1) : n * 1000 >= ms /\ (n - 1) * 1000 < ms

(* C19: every rejection of the limiter is answered 429 with a Retry-After of
   the whole seconds, rounded up, from now to the expiry of the bucket's
   window; the value is at least 1 and at most ceil(window length / 1000). *)
C19_RetryAfterWholeSecondsUp ==
    \A i \in 1..Len(rlLog) :
        ~rlLog[i].admitted =>
            LET expiry == rlLog[WindowStart(i)].t + WindowMs IN
            /\ rlLog[i].answer.status = 429
            /\ rlLog[i].answer.retryAfter = WholeSecondsUp(expiry - rlLog[i].t)
            /\ rlLog[i].answer.retryAfter >= 1
            /\ rlLog[i].answer.retryAfter <= WholeSecondsUp(WindowMs)

C19_Witness ==
    \E i, j \in 1..Len(rlLog) :
        /\ ~rlLog[i].admitted /\ ~rlLog[j].admitted
        /\ rlLog[i].key = rlLog[j].key /\ WindowStart(i) = WindowStart(j)
        /\ rlLog[i].answer.retryAfter = 2 /\ rlLog[j].answer.retryAfter = 1
        /\ rlLog[j].t - rlLog[WindowStart(j)].t < WindowMs
        /\ rlLog[j].t - rlLog[WindowStart(j)].t > 0

(* The log entries counted in a bucket's current window *)
CountedIn(key) ==
    {i \in 1..Len(rlLog) :
        /\ rlLog[i].admitted
        /\ rlLog[i].key = key
        /\ rlLog[i].t >= buckets[key].expiresAt - WindowMs}

(* C20: the bucket a request is counted in is the credential's when a
   credential is attached, else the tenant's when a tenant is resolved, else
   the network address's; a request with a bearer identity and an API key is
   counted in the key's bucket only, in no tenant's bucket. *)
C20_BucketKeyPrecedence ==
    /\ \A i \in 1..Len(rlLog) :
          LET a == rlLog[i].identity IN
          /\ a.apiKey # None => rlLog[i].key = <<"api-key", a.apiKey>>
          /\ (a.apiKey = None /\ a.orgId # None) => rlLog[i].key = <<"org", a.orgId>>
          /\ (a.apiKey = None /\ a.orgId = None) => rlLog[i].key = <<"ip", ReqIp>>
    /\ \A key \in DOMAIN buckets : buckets[key].count = Cardinality(CountedIn(key))
    /\ \A o \in Orgs :
          <<"org", o>> \in DOMAIN buckets =>
              \E i \in 1..Len(rlLog) :
                  rlLog[i].identity.apiKey = None /\ rlLog[i].identity.orgId = o

C20_Witness ==
    /\ \E i \in 1..Len(rlLog) :
          /\ rlLog[i].identity.user # None /\ rlLog[i].identity.apiKey = "k2"
          /\ rlLog[i].admitted
    /\ <<"api-key", "k2">> \in DOMAIN buckets
    /\ <<"org", "o2">> \notin DOMAIN buckets
    /\ <<"org", "o1">> \notin DOMAIN buckets
    /\ <<"ip", ReqIp>> \in DOMAIN buckets

(* The limit the resolution order gives a logged request *)
CredentialLimit(a) == IF a.apiKey = None THEN 0 ELSE apiKeys[a.apiKey].rateLimitPerMinute

ResolvedLimit(e) ==
    IF e.override # 0 THEN e.override
    ELSE IF CredentialLimit(e.identity) # 0 THEN CredentialLimit(e.identity)
    ELSE DefaultLimit

AdmittedBefore(i) ==
    Cardinality({j \in 1..(i - 1) : rlLog[j].key = rlLog[i].key /\ rlLog[j].admitted})

(* C21: the limit applied to a request is the explicit per-call override when
   one is given, else the credential's configured per-minute limit when the
   credential has one, else the global default; the request is admitted
   exactly when fewer requests than that limit were admitted before it in the
   window. *)
C21_LimitPrecedence ==
    \A i \in 1..Len(rlLog) :
        /\ rlLog[i].limit = ResolvedLimit(rlLog[i])
        /\ rlLog[i].admitted <=> AdmittedBefore(i) < ResolvedLimit(rlLog[i])

(* An override that beats a credential's limit, a credential's limit that
   beats the default, and the default, each deciding a request *)
C21_Witness ==
    \E i, j, k \in 1..Len(rlLog) :
        /\ rlLog[i].override = 3 /\ CredentialLimit(rlLog[i].identity) = 1
        /\ rlLog[i].admitted /\ AdmittedBefore(i) = 1
        /\ rlLog[j].override = 0 /\ CredentialLimit(rlLog[j].identity) = 1
        /\ ~rlLog[j].admitted /\ AdmittedBefore(j) = 1
        /\ rlLog[k].override = 0 /\ CredentialLimit(rlLog[k].identity) = 0
        /\ rlLog[k].limit = DefaultLimit /\ rlLog[k].admitted

(* Admitted requests of request i's key inside the interval of window length
   that starts at request i, both ends included *)
AdmittedFrom(i) ==
    {j \in 1..Len(rlLog) :
        /\ rlLog[j].key = rlLog[i].key /\ rlLog[j].admitted
        /\ rlLog[i].t <= rlLog[j].t /\ rlLog[j].t <= rlLog[i].t + WindowMs}

(* Admitted requests of the fixed window request i falls in *)
AdmittedInWindowOf(i) ==
    {j \in 1..Len(rlLog) :
        /\ rlLog[j].key = rlLog[i].key /\ rlLog[j].admitted
        /\ WindowStart(j) = WindowStart(i)}

(* C22: for one bucket key with limit L, at most 2*L requests are admitted in
   any interval as long as the window (every such interval that admits
   requests contains one starting at a request), and at most L within one
   window. *)
C22_BurstBound ==
    \A i \in 1..Len(rlLog) :
        /\ Cardinality(AdmittedFrom(i)) <= 2 * rlLog[i].limit
        /\ Cardinality(AdmittedInWindowOf(i)) <= rlLog[i].limit

(* A key of limit 1 with three admitted requests, two of them a window length
   apart (the burst of 2*L across a boundary) and a rejected one in between *)
C22_Witness ==
    \E i, j, k, m \in 1..Len(rlLog) :
        /\ rlLog[i].limit = 1
        /\ rlLog[j].key = rlLog[i].key /\ rlLog[k].key = rlLog[i].key
        /\ rlLog[m].key = rlLog[i].key
        /\ rlLog[i].admitted /\ rlLog[j].admitted /\ rlLog[k].admitted
        /\ ~rlLog[m].admitted
        /\ rlLog[j].t = rlLog[i].t + WindowMs
        /\ rlLog[k].t = rlLog[j].t + WindowMs
        /\ Cardinality(AdmittedFrom(i)) = 2 * rlLog[i].limit

AdmittedTo(key) == {r \in Reqs : req[r].rl = "admit" /\ req[r].bucket = key}

(* C23: under any interleaving of concurrent requests with the same bucket
   key no counter update is lost: within one window the bucket's count equals
   the number of admitted requests, and never more than L are admitted. *)
C23_NoLostUpdate ==
    \A key \in DOMAIN buckets :
        /\ buckets[key].count = Cardinality(AdmittedTo(key))
        /\ \A r \in Reqs : (req[r].rl # None /\ req[r].bucket = key) =>
               Cardinality(AdmittedTo(key)) <= effectiveLimit(0, req[r])

(* Two requests in flight together race for a key of limit 1: the one that
   was submitted first is overtaken and rejected *)
C23_Witness ==
    /\ req[2].rl = "admit" /\ req[1].rl = "reject"
    /\ req[1].bucket = req[2].bucket
    /\ effectiveLimit(0, req[1]) = 1
    /\ buckets[req[1].bucket].count = 1

(* The request presented a bearer token that jwt.verify does not accept, and
   its bearer middleware has run *)
BadBearer(r) ==
    /\ req[r].pc \notin {"idle", "jwt"}
    /\ req[r].bearer.scheme = "Bearer"
    /\ jwtVerifyError(req[r].bearer.token, JwtSecret, now) # None

(* C27: a bearer token that is malformed, expired or carries a bad signature
   is answered 401, never 500, and no job is created. *)
C27_BadBearerAnswered401 ==
    \A r \in Reqs :
        BadBearer(r) =>
            /\ req[r].pc = "done" /\ req[r].status = 401
            /\ JobsOf(r) = {}

(* The calls that were answered *)
Answered == {r \in Reqs : req[r].pc = "done" /\ req[r].route \in ManagementRoutes}

(* The operations the specification gates by role, with the roles it allows *)
RoleGated == {"auth/api-keys", "models/reload", "tts/voice-clone"}
GateRoles(route) ==
    IF route = "tts/voice-clone" THEN {"owner", "admin", "developer"} ELSE {"owner", "admin"}

(* C24: on a role-gated route a request with no principal and a request whose
   principal's role is not in the allow-list are both answered 403, and the
   gated operation is not executed. *)
C24_RoleGateForbids ==
    \A r \in Answered :
        (/\ req[r].route \in RoleGated
         /\ req[r].user = None \/ req[r].role \notin GateRoles(req[r].route))
        => (req[r].status = 403 /\ ~req[r].executed)

(* C26: the token of a successful login carries the subject id, tenant id and
   role of the matched user record and verifies; presented while that user
   still exists in that tenant it resolves to the same user and tenant, and
   otherwise it is refused. *)
C26_LoginRoundTrip ==
    \A i \in 1..Len(hist) :
        hist[i].status = 200 =>
            LET e == hist[i]
                claims == JwtPayload(e.token)
            IN /\ claims.sub = e.user
               /\ claims.orgId = e.record.orgId
               /\ claims.role = e.record.role
               /\ e.record.email = e.email /\ e.record.passwordHash = bcryptHash(e.password)
               /\ e.orgSlug # None => OrgSlug[e.record.orgId] = e.orgSlug
               /\ jwtVerifyError(e.token, JwtSecret, now) = None
               /\ \A r \in Reqs :
                     (req[r].bearer = Bearer(e.token) /\ req[r].verified) =>
                        IF req[r].staleJwt
                        THEN req[r].status = 401 /\ req[r].user = None
                        ELSE req[r].user = e.user /\ req[r].orgId = e.record.orgId

(* A login by e-mail and tenant slug picks the developer of the second tenant
   among two users with one e-mail, and the token resolves to that user *)
C26_Witness ==
    \E i \in 1..Len(hist), r \in Reqs :
        /\ hist[i].status = 200 /\ hist[i].user = "u3" /\ hist[i].orgSlug = "globex"
        /\ req[r].bearer = Bearer(hist[i].token) /\ req[r].verified
        /\ req[r].user = "u3" /\ req[r].orgId = "o2" /\ req[r].role = "developer"

(* C29: model status, model reload and usage analytics are executed only for
   a request with a valid bearer identity, and model reload only for a
   principal whose role is owner or admin. *)
C29_ModelsAndUsageBearerOnly ==
    \A r \in Answered :
        (req[r].executed /\ req[r].route \in {"models/status", "models/reload", "analytics/usage"})
        => /\ req[r].user # None
           /\ req[r].route = "models/reload" => req[r].role \in {"owner", "admin"}

(* The text of the exception the HTTP library throws when the provider cannot
   be reached *)
InternalText == ProviderError("thrown")

(* C25: when a provider call fails with a library exception, neither the
   message stored on the failed job nor the message returned to the client is
   the exception's internal text. *)
C25_FailureMessageSanitized ==
    \A j \in JobIds :
        (hist[j].provider = "thrown" /\ jobs[j].status = "failed") =>
            /\ jobs[j].errorMessage # InternalText
            /\ req[hist[j].req].pc = "done" => req[hist[j].req].message # InternalText

(* The request was turned away by credential resolution, by a guard or by the
   rate limiter *)
Rejected(r) == req[r].pc = "done" /\ req[r].status \in {401, 403, 429}

(* C28: a request rejected by credential resolution, by the
   organization-context guard or by the rate limiter creates no job, causes no
   provider call and writes no usage record; every job's request had an
   identity resolved and was admitted by the rate limiter. *)
C28_RejectedNeverReachesOrchestrator ==
    /\ \A r \in Reqs :
          Rejected(r) =>
             /\ JobsOf(r) = {} /\ req[r].calls = 0
             /\ \A u \in 1..Len(usage) : usage[u].jobId \notin JobsOf(r)
    /\ \A r \in Reqs : req[r].rl = "reject" => Rejected(r) /\ req[r].status = 429
    /\ \A r \in Reqs : req[r].rl # "admit" => JobsOf(r) = {} /\ req[r].calls = 0
    /\ \A j \in JobIds :
          /\ req[hist[j].req].resolved
          /\ req[hist[j].req].orgId # None
          /\ req[hist[j].req].rl = "admit"
    /\ \A u \in 1..Len(usage) : usage[u].jobId \in JobIds

(* One request turned away by the limiter after another was admitted and
   created a job in the same bucket *)
C28_Witness ==
    \E r, q \in Reqs :
        /\ Rejected(r) /\ req[r].rl = "reject"
        /\ req[q].rl = "admit" /\ JobsOf(q) # {}
        /\ req[q].bucket = req[r].bucket

ItemsInProcessing(r) == {j \in JobsOf(r) : jobs[j].status = "processing"}

(* C30: a batch dispatches its jobs one after another: the job of a later item
   exists only when the job of every earlier item is completed or failed, so
   at most one job of a batch is in processing at any time. *)
C30_BatchSequential ==
    \A r \in Reqs :
        IsBatch(req[r].route) =>
            /\ Cardinality(ItemsInProcessing(r)) <= 1
            /\ \A j, k \in JobsOf(r) :
                  hist[j].item < hist[k].item => jobs[j].status \in Terminal

(* A batch whose first job is finished while its second is in processing *)
C30_Witness ==
    \E r \in Reqs : \E j, k \in JobsOf(r) :
        /\ IsBatch(req[r].route)
        /\ hist[j].item < hist[k].item
        /\ jobs[j].status = "completed" /\ jobs[k].status = "processing"
        /\ req[r].calls = 2

(* C31: every job is first persisted with status processing, and no job is
   in status queued in any reachable state. *)
C31_CreatedProcessingNeverQueued ==
    \A j \in JobIds :
        /\ hist[j].createdAs = "processing"
        /\ jobs[j].status \in {"processing", "completed", "failed"}

(* A job just created, before its provider call, and one that has finished *)
C31_Witness ==
    \E j, k \in JobIds :
        /\ jobs[j].status = "processing" /\ hist[j].provider = None
        /\ jobs[k].status = "completed" /\ hist[k].createdAs = "processing"

(* The request stands between the completion write of its job and the usage
   append: what storage holds if the process stops here *)
BeforeUsageAppend(r) == req[r].pc = "usage"

(* C32: within one job the writes are ordered create, then complete or fail,
   then the usage append: a usage record references a job that exists and was
   written completed before, a job's row exists before any of its other
   writes, and a process that stops between the completion write and the
   usage append leaves the job completed with no usage record. *)
C32_WritesInProgramOrder ==
    /\ \A u \in 1..Len(usage) :
          /\ usage[u].jobId \in JobIds
          /\ jobs[usage[u].jobId].status = "completed"
    /\ \A r \in Reqs :
          req[r].pc \in {"dispatch", "persist", "complete", "usage", "fail"} =>
             req[r].job \in JobIds
    /\ \A r \in Reqs :
          req[r].pc \in {"dispatch", "persist", "complete"} =>
             jobs[req[r].job].status = "processing" /\ UsageOf(req[r].job) = {}
    /\ \A r \in Reqs :
          BeforeUsageAppend(r) =>
             jobs[req[r].job].status = "completed" /\ UsageOf(req[r].job) = {}

(* A job written completed whose usage append has not happened, next to a
   job whose three writes are done *)
C32_Witness ==
    \E r \in Reqs, k \in JobIds :
        /\ BeforeUsageAppend(r)
        /\ jobs[req[r].job].status = "completed" /\ UsageOf(req[r].job) = {}
        /\ k # req[r].job /\ jobs[k].status = "completed" /\ UsageOf(k) # {}

HasBearer(r) == req[r].bearer # NoAuthorization
HasKey(r) == req[r].apiKeyHeader # None
BearerTenant(r) == JwtPayload(req[r].bearer.token).orgId
KeyTenant(r) ==
    apiKeys[CHOOSE k \in DOMAIN apiKeys : apiKeys[k].keyHash = hashKey(req[r].apiKeyHeader)].orgId

(* The tenant the order bearer first, key second leaves on the request *)
LastResolvedTenant(r) == IF HasKey(r) THEN KeyTenant(r) ELSE BearerTenant(r)

(* C33: the bearer is resolved first and the key second; with both presented
   the tenant used downstream (job, usage) is the one resolved last, the
   key's; with one of them presented it is that credential's tenant. *)
C33_LastResolvedTenantWins ==
    /\ \A r \in Reqs :
          (req[r].pc = "apikey" /\ HasBearer(r)) =>
             /\ req[r].user # None /\ req[r].apiKey = None
             /\ req[r].orgId = BearerTenant(r)
    /\ \A r \in Reqs :
          (req[r].resolved /\ (HasBearer(r) \/ HasKey(r))) =>
             req[r].orgId = LastResolvedTenant(r)
    /\ \A j \in JobIds : jobs[j].orgId = LastResolvedTenant(hist[j].req)
    /\ \A u \in 1..Len(usage) : usage[u].orgId = LastResolvedTenant(hist[usage[u].jobId].req)

(* A request with a bearer token of one tenant and a key of another, billed to
   the key's tenant *)
C33_Witness ==
    \E u \in 1..Len(usage) :
        LET r == hist[usage[u].jobId].req IN
        /\ HasBearer(r) /\ HasKey(r)
        /\ BearerTenant(r) # KeyTenant(r)
        /\ usage[u].orgId = KeyTenant(r) /\ jobs[usage[u].jobId].orgId = KeyTenant(r)

----------------------------------------------------------------------------
(* API keys: revocation and the issue/resolve round trip (SpecKeys) *)

ApiKeyColumns == {"orgId", "keyHash", "scopes", "rateLimitPerMinute", "revokedAt", "lastUsedAt"}

RevokeAnswersOK(log) ==
    \A i \in 1..Len(log) : log[i].op = "revoke" /\ log[i].known =>
        LET e == log[i]
            row == e.before[e.id] IN
        /\ row.orgId # e.orgId => e.status = 404 /\ e.after = e.before
        /\ (row.orgId = e.orgId /\ row.revokedAt # NULL) => e.status = 200 /\ e.after = e.before

(* C34: once revokedAt of a key is set no step clears or changes it (a second
   revoke answers with the row unchanged), a revoke by a principal of another
   tenant answers 404 and leaves the table as it was, and no step changes the
   scopes of an existing key or removes the key *)
C34_RevocationPermanentTenantScoped ==
    [][/\ \A k \in DOMAIN apiKeys :
             /\ k \in DOMAIN apiKeys'
             /\ apiKeys'[k].scopes = apiKeys[k].scopes
             /\ apiKeys[k].revokedAt # NULL => apiKeys'[k].revokedAt = apiKeys[k].revokedAt
       /\ RevokeAnswersOK(hist')]_vars

C34_Witness ==
    /\ \E i \in 1..Len(hist) :
          /\ hist[i].op = "revoke" /\ hist[i].known /\ hist[i].status = 200
          /\ hist[i].before[hist[i].id].revokedAt # NULL
          /\ hist[i].before[hist[i].id].revokedAt < hist[i].at
    /\ \E i \in 1..Len(hist) :
          /\ hist[i].op = "revoke" /\ hist[i].known /\ hist[i].status = 404
          /\ hist[i].before[hist[i].id].orgId # hist[i].orgId

CreatedKeys == {i \in 1..Len(hist) : hist[i].op = "create" /\ hist[i].status = 201}

RevokedBefore(id, j) ==
    \E i \in 1..(j - 1) : hist[i].op = "revoke" /\ hist[i].id = id /\ hist[i].status = 200

IssuedBefore(header, j) ==
    \E i \in 1..(j - 1) : hist[i].op = "create" /\ hist[i].status = 201 /\ hist[i].value = header

(* The secrets of the keys the table starts with *)
SeededSecrets == {"s1", "s2"}

(* C40: the row of a created key holds hashKey of the returned value and no
   other column for it; presenting the value resolves to that key and its
   tenant until the key is revoked, and then to 401; a value never returned
   by create resolves to 401 *)
C40_KeyRoundTrip ==
    /\ \A i \in CreatedKeys :
          /\ hist[i].id \in DOMAIN apiKeys
          /\ DOMAIN apiKeys[hist[i].id] = ApiKeyColumns
          /\ apiKeys[hist[i].id].keyHash = hashKey(hist[i].value)
          /\ apiKeys[hist[i].id].orgId = hist[i].orgId
    /\ \A i \in CreatedKeys : \A j \in (i + 1)..Len(hist) :
          (hist[j].op = "attach" /\ hist[j].header = hist[i].value) =>
             IF RevokedBefore(hist[i].id, j)
             THEN hist[j].status = 401
             ELSE hist[j].status = 0 /\ hist[j].apiKey = hist[i].id /\ hist[j].orgId = hist[i].orgId
    /\ \A j \in 1..Len(hist) :
          (hist[j].op = "attach" /\ hist[j].header \notin SeededSecrets
                                 /\ ~IssuedBefore(hist[j].header, j)) => hist[j].status = 401

C40_Witness ==
    \E i \in CreatedKeys : \E j \in (i + 1)..Len(hist) : \E l \in 1..(i - 1) :
        /\ hist[j].op = "attach" /\ hist[j].header = hist[i].value
        /\ hist[j].status = 0 /\ hist[j].apiKey = hist[i].id /\ hist[j].orgId = "o2"
        /\ hist[l].op = "attach" /\ hist[l].header = hist[i].value /\ hist[l].status = 401

----------------------------------------------------------------------------
(* The limiter behind the organization-context guard (Spec) *)

(* C35: on the routes that mount rateLimit() every bucket is keyed by an API
   key id or a tenant id, never by the network address: a request the limiter
   has counted had a tenant attached, and its key is that of its API key when
   it has one and of its tenant otherwise *)
C35_BucketKeyNeverAddress ==
    /\ \A k \in DOMAIN buckets : k[1] \in {"api-key", "org"}
    /\ \A r \in Reqs : req[r].rl # None =>
          /\ req[r].orgId # None
          /\ req[r].bucket = IF req[r].apiKey # None
                              THEN <<"api-key", req[r].apiKey>>
                              ELSE <<"org", req[r].orgId>>

C35_Witness ==
    /\ \E r \in Reqs : /\ req[r].rl = "admit" /\ req[r].apiKey = None
                         /\ req[r].bucket = <<"org", req[r].orgId>>
    /\ \E r \in Reqs : /\ req[r].rl # None /\ req[r].apiKey # None
                         /\ req[r].bucket = <<"api-key", req[r].apiKey>>

----------------------------------------------------------------------------
(* Retry-After honoured (SpecRate) *)

(* The next request of the key of request i, when there is one *)
NextOfKey(i) ==
    {j \in (i + 1)..Len(rlLog) :
        /\ rlLog[j].key = rlLog[i].key
        /\ \A m \in (i + 1)..(j - 1) : rlLog[m].key # rlLog[i].key}

RetryHonoured ==
    \A i \in 1..Len(rlLog) : ~rlLog[i].admitted =>
        \A j \in NextOfKey(i) :
            rlLog[j].t >= rlLog[i].t + rlLog[i].answer.retryAfter * MsPerSecond =>
                /\ rlLog[j].admitted
                /\ WindowStart(j) = j
                /\ LastOfKey(j) =>
                      buckets[rlLog[j].key] = [count |-> 1, expiresAt |-> rlLog[j].t + WindowMs]

(* C36: the next request of a key that was rejected with Retry-After r, sent
   r seconds or more after the rejection, is admitted and opens a fresh
   window (count 1, expiry one window length ahead); and no step changes the
   expiry of a window that has not expired: neither an admitted nor a
   rejected request extends it *)
C36_RetryAfterHonoured ==
    [][/\ \A k \in DOMAIN buckets :
             buckets'[k].expiresAt # buckets[k].expiresAt =>
                 /\ buckets[k].expiresAt <= now
                 /\ buckets'[k] = [count |-> 1, expiresAt |-> now + WindowMs]
       /\ RetryHonoured']_vars

C36_Witness ==
    \E i \in 1..Len(rlLog) : \E j \in NextOfKey(i) :
        /\ ~rlLog[i].admitted
        /\ rlLog[i].answer.retryAfter = 1
        /\ rlLog[j].t = rlLog[i].t + MsPerSecond
        /\ rlLog[j].admitted
        /\ buckets[rlLog[j].key] = [count |-> 1, expiresAt |-> rlLog[j].t + WindowMs]

----------------------------------------------------------------------------
(* Buckets isolated per caller (SpecRate) *)

(* Two requests are of the same caller when they carry the same API key or,
   without a key, the same tenant *)
SameCaller(a, b) == a.apiKey = b.apiKey /\ (a.apiKey = None => a.orgId = b.orgId)

RECURSIVE BucketAlone(_, _)
(* The window of caller a after the first n requests of the log, computed
   from the requests of caller a alone; count 0 stands for no window yet *)
BucketAlone(a, n) ==
    IF n = 0 THEN [count |-> 0, expiresAt |-> 0]
    ELSE LET b == BucketAlone(a, n - 1)
             e == rlLog[n] IN
         IF ~SameCaller(e.identity, a) THEN b
         ELSE IF b.count = 0 \/ b.expiresAt <= e.t THEN [count |-> 1, expiresAt |-> e.t + WindowMs]
         ELSE IF b.count >= e.limit THEN b
         ELSE [b EXCEPT !.count = @ + 1]

AdmittedAlone(i) ==
    LET b == BucketAlone(rlLog[i].identity, i - 1) IN
    b.count = 0 \/ b.expiresAt <= rlLog[i].t \/ b.count < rlLog[i].limit

(* C37: the answer to a request is the answer it would get if only the
   earlier requests of its own caller had been made, and the bucket of a
   caller is the one its own requests alone produce: requests of another API
   key, or of the tenant without a key, never cause a 429 *)
C37_BucketsIsolated ==
    \A i \in 1..Len(rlLog) :
        /\ rlLog[i].admitted <=> AdmittedAlone(i)
        /\ LastOfKey(i) => buckets[rlLog[i].key] = BucketAlone(rlLog[i].identity, Len(rlLog))

C37_Witness ==
    \E i, j \in 1..Len(rlLog) :
        /\ i < j
        /\ rlLog[i].identity.apiKey = "k1" /\ ~rlLog[i].admitted
        /\ rlLog[j].identity.apiKey = None /\ rlLog[j].identity.orgId = "o1"
        /\ rlLog[j].t = rlLog[i].t
        /\ rlLog[j].admitted

----------------------------------------------------------------------------
(* The references of a job (Spec) *)

(* C38: the principal and the API key a job records, when set, belong to the
   tenant the job records: the principal's tenant is the one its token was
   verified for, the key's tenant the one of its row *)
C38_JobReferencesOneTenant ==
    \A j \in JobIds :
        /\ jobs[j].userId # None => BearerTenant(hist[j].req) = jobs[j].orgId
        /\ jobs[j].apiKeyId # None => apiKeys[jobs[j].apiKeyId].orgId = jobs[j].orgId

----------------------------------------------------------------------------
(* The fallback tenant is resolved single-flight (SpecFallback) *)

PendingLookups == {p \in 1..Len(fallback.promises) : fallback.promises[p].state = "pending"}

Returned == {c \in Callers : fallback.callers[c].pc = "returned"}

SingleFlight ==
    /\ Cardinality(PendingLookups) <= 1
    /\ \A c, d \in Returned : fallback.callers[c].result = fallback.callers[d].result
    /\ \A c \in Returned : fallback.callers[c].promise # 0 =>
          fallback.callers[c].result = fallback.promises[fallback.callers[c].promise].value
    /\ fallback.created <= 1
    /\ \A p \in 2..Len(fallback.promises) : fallback.promises[p - 1].state = "rejected"
    /\ fallback.fallbackOrgPromise # 0 =>
          \E c \in Callers : /\ fallback.callers[c].pc = "awaiting"
                              /\ fallback.callers[c].promise = fallback.fallbackOrgPromise
    /\ (fallback.cachedFallbackOrgId = None /\ fallback.fallbackOrgPromise = 0) =>
          PendingLookups = {}

(* C39: at most one lookup of the fallback organization is pending at a time
   and a new one starts only after the one before it failed; the callers that
   return all return the same id, the one their lookup produced; the lookups
   store at most one organization; once the id is cached no storage call is
   made; and fallbackOrgPromise is set only while its maker awaits it, so a
   call after a failure starts a new lookup *)
C39_FallbackSingleFlight ==
    [][/\ SingleFlight'
       /\ fallback.cachedFallbackOrgId # None =>
             /\ fallback'.storageCalls = fallback.storageCalls
             /\ fallback'.cachedFallbackOrgId = fallback.cachedFallbackOrgId]_vars

C39_Witness ==
    /\ Len(fallback.promises) = 2
    /\ fallback.promises[1].state = "rejected"
    /\ fallback.promises[2].state = "fulfilled"
    /\ fallback.created = 1
    /\ \E a, b, c \in Callers :
          /\ fallback.callers[a].pc = "threw" /\ fallback.callers[a].promise = 1
          /\ fallback.callers[b].pc = "returned" /\ fallback.callers[b].promise = 2
          /\ fallback.callers[c].pc = "returned" /\ fallback.callers[c].promise = 2
          /\ b # c
          /\ fallback.callers[b].result = fallback.callers[c].result

====
